---- MODULE Spec2Model ----
(***************************************************************************)
(* Model of the native USB capture module (nativeusb.cpp): the isochronous *)
(* submit/reap loop of NativeUSB_stream, the control entry points that run *)
(* on the UI thread, and the ring export copy of copyURBBufferData.        *)
(*                                                                         *)
(* Threads: one worker (the caller of NativeUSB_stream) and one UI thread  *)
(* (the caller of every other entry point).  s_mutex is a recursive mutex; *)
(* the worker holds it everywhere except inside the USBDEVFS_REAPURB       *)
(* ioctl, so the steps of the worker between two waits are interleaved     *)
(* with the UI thread only at the wait.  The UI entry points are short     *)
(* critical sections and are one action each.                              *)
(*                                                                         *)
(* Kernel: a submitted URB is "inflight" until REAPURB hands it back; the  *)
(* device may complete in-flight URBs in any order.  Every ioctl outcome   *)
(* the code distinguishes (0, EINTR, ENODEV, any other errno) is an        *)
(* input of the model.  The host opens a fresh device descriptor for each  *)
(* call of NativeUSB_stream, so no URB of an earlier call is in flight     *)
(* when a call begins.                                                     *)
(***************************************************************************)
EXTENDS Integers, Sequences, FiniteSets, TLC

(***************************************************************************)
(* Bounds of the model.                                                    *)
(***************************************************************************)
\* Size of the URB pool (10 in the source, scaled down for checking).
URBS_TO_JUGGLE == 3
\* Interrupted (EINTR) attempts modelled per call in the initial submit loop.
MaxEintr == 1
\* Largest sample rate offered to the session setup, in kHz.
MaxRateKHz == 400
\* Largest number of stereo sample pairs in a merged transfer.
MaxPairs == 2

\* Largest number of samples in one call of write_audio_output.
MaxRunLen == 3

\* Largest number of samples in a run handed to write_audio_output on its own.
MaxWriteLen == 6

\* Largest colour map, calls of nativeInitialize and pixels of a rendering call.
MaxMapSize == 2
MaxLoads == 2
MaxPixels == 2

\* Largest number of windows handed to one call of doFft.
MaxWindows == 2

\* Largest raw data array and largest window handed to unwrapSlices.
MaxRaw == 4
MaxWindowSize == 2

\* Packets of one URB (25 in the source) and largest requested packet length
\* in bytes, for the compaction of a reaped transfer on its own.
PACKETS_PER_URB == 3
MaxPacketBytes == 2

\* Largest number of samples of one channel in a packet (385 in the source),
\* for the processing of a reaped slot buffer on its own.
MaxFrameSamples == 1

\* Samples of a constant input fed to the anti-alias filter from rest.
MaxFilterSteps == 50

\* Time and frequency buckets of the transformed data handed to findBnCRange.
MaxTimeBuckets == 2
MaxFrequencyBuckets == 2

\* Largest urb->actual_length (bytes) a reaped transfer reports.
MaxBytes == 4
\* Largest number of unbalanced locks of s_mutex that is modelled.
MaxLeakedLocks == 1
\* Largest ring capacity in the export copy.
MaxCap == 4

(***************************************************************************)
(* errno values the code tests for, and a representative of the others.    *)
(***************************************************************************)
EINTR == 4
ENODEV == 19
OtherErrnos == {12}
FatalErrnos == {ENODEV} \cup OtherErrnos

Slots == 0 .. (URBS_TO_JUGGLE - 1)
NoUrb == -1
ActualLengths == 0 .. MaxBytes
ChannelInputs == {1, 2, 3}
SampleRates == {384000}
Tones == {0, 400}
Boosts == {0}
RecFds == {-1, 3, 4}
AudioOutcomes == {"builder_failed", "open_failed", "start_failed", "started"}
MAX_REFERENCE_LEN == 512

VARIABLES
    mutex,                        \* s_mutex: [owner, count]
    wpc,                          \* position of the worker in NativeUSB_stream
    i_submit,                     \* i of the initial submit loop
    slot,                         \* per URB: "idle" or "inflight" (owned by the kernel)
    balls_in_the_air,
    ret,                          \* ret of the last ioctl
    errno,
    urbReaped,                    \* index of the URB returned by REAPURB, or NoUrb
    actual_length,                \* urbReaped->actual_length
    bridgeOk,                     \* bridgeClass && onDataBufferReadyMethod
    s_cancel_pending,
    s_paused,
    s_fd_file,
    s_num_channels,
    s_nominal_samples_per_frame,
    s_android_stream,             \* TRUE iff s_android_stream != nullptr
    cb,                           \* onDataBufferReady calls made for the current URB (sample counts)
    aw,                           \* write_audio_output calls made for the current URB (sample counts)
    status,                       \* value returned by NativeUSB_stream (0 while it runs)
    retpath,                      \* which way NativeUSB_stream left
    copy,                         \* one call of copyURBBufferData
    call,                         \* one call of a function of the module that keeps no state
    s_sample_rate,
    s_decimation_factor,
    s_audio_out_rate,
    s_downsampling_iir_coefficient,
    s_reference_len,
    stream_sample_rate,           \* sample rate the open AAudio stream was built with, or NoRate
    s_heterodyne1_kHz,
    s_heterodyne2_kHz,
    s_audio_boost_shift,
    s_reference1_index,
    s_reference2_index,
    s_downsampling_filter_state,  \* previous[0 .. 3], as a sequence
    wa,                           \* the call of write_audio_output in progress, if any
    open_fds,                     \* recording descriptors handed to the module and not closed
    bad_close,                    \* close() was called on a descriptor that is not open
    s_already_initialized,        \* pipeline.cpp
    s_colourMapData,              \* pipeline.cpp: [alloc, data], alloc 0 is nullptr
    s_colourMapDataSize,          \* pipeline.cpp
    s_amplitude_graph_colour,     \* pipeline.cpp
    freed,                        \* allocations of the colour map that were deleted
    map_loads,                    \* calls of nativeInitialize made so far
    map_rc,                       \* value returned by the last nativeInitialize
    render                        \* the doColourMapping call in progress, if any

sessionVars == << s_sample_rate, s_decimation_factor, s_audio_out_rate,
                  s_downsampling_iir_coefficient >>

audioVars == << s_reference_len, stream_sample_rate, s_heterodyne1_kHz,
                s_heterodyne2_kHz, s_audio_boost_shift, s_reference1_index,
                s_reference2_index, s_downsampling_filter_state, wa >>

recVars == << open_fds, bad_close >>

mapVars == << s_already_initialized, s_colourMapData, s_colourMapDataSize,
              s_amplitude_graph_colour, freed, map_loads, map_rc, render >>

vars == << mutex, wpc, i_submit, slot, balls_in_the_air, ret, errno, urbReaped,
           actual_length, bridgeOk, s_cancel_pending, s_paused, s_fd_file,
           s_num_channels, s_nominal_samples_per_frame, s_android_stream,
           cb, aw, status, retpath, copy, call,
           sessionVars, audioVars, recVars, mapVars >>

\* every variable but copy and call
captureVars == << mutex, wpc, i_submit, slot, balls_in_the_air, ret, errno, urbReaped,
           actual_length, bridgeOk, s_cancel_pending, s_paused, s_fd_file,
           s_num_channels, s_nominal_samples_per_frame, s_android_stream,
           cb, aw, status, retpath, sessionVars, audioVars, recVars, mapVars >>

(***************************************************************************)
(* s_mutex, a recursive mutex.                                             *)
(***************************************************************************)
FreeMutex == [owner |-> "none", count |-> 0]

CanLock(m, t) == m.owner \in {"none", t}

Lock(m, t) == [owner |-> t, count |-> m.count + 1]

Unlock(m) == IF m.count = 1 THEN FreeMutex ELSE [m EXCEPT !.count = @ - 1]

(***************************************************************************)
(* Conditions of the capture loop.                                         *)
(***************************************************************************)
\* line 326: while ((!s_cancel_pending) || (balls_in_the_air > 0))
KeepJuggling(cancel, balls) == (~cancel) \/ (balls > 0)

\* line 419: if (!s_cancel_pending)   (recycle the request)
ShouldResubmit_always(cancel) == TRUE

ShouldResubmit(cancel) == ~cancel

\* line 354: if (!s_paused)
ForwardingEnabled_always(paused) == TRUE

ForwardingEnabled(paused) == ~paused

\* line 384: if (actual_samples_read > 0)
ShouldNotify_always(n) == n >= 0

ShouldNotify(n) == n > 0

\* lines 339-341: the mutex is released around the REAPURB ioctl
ReleaseForWait_keep(m) == m

ReleaseForWait(m) == Unlock(m)

\* lines 349, 373-380: the sample count handed to the callback
MergedSamples(len, channels) ==
    LET actual_samples_read == len \div 2
    IN  IF channels = 2 THEN actual_samples_read \div 2 ELSE actual_samples_read

\* lines 549-559: stop_recording closes the descriptor it holds
RecordingHeld_never(fd_file) == FALSE

RecordingHeld(fd_file) == fd_file >= 0

FdsAfterStop(fd_file, fds) == IF RecordingHeld(fd_file) THEN fds \ {fd_file} ELSE fds

BadClose(fd_file, fds) == RecordingHeld(fd_file) /\ fd_file \notin fds

\* line 451: return ret < 0 ? errno : 0
ReturnStatus(r, e) == IF r < 0 THEN e ELSE 0

(***************************************************************************)
(* copyURBBufferData (lines 504-542) on a ring of target_buffer_size       *)
(* samples, indices from 0.  The source holds source[i] = i + 1, the ring  *)
(* starts as target[j] = -(j + 1), so no source value is an old value.     *)
(***************************************************************************)
MaxCount == 2 * MaxCap + 1

SourceData == [i \in 0 .. (MaxCount - 1) |-> i + 1]

FreshRing(cap) == [j \in 0 .. (cap - 1) |-> 0 - (j + 1)]

\* lines 515-516
Part1Count_short(samples_to_copy, offset, cap) ==
    LET part1Space == cap - offset - 1
    IN  IF samples_to_copy > part1Space THEN part1Space ELSE samples_to_copy

Part1Count(samples_to_copy, offset, cap) ==
    LET part1Space == cap - offset
    IN  IF samples_to_copy > part1Space THEN part1Space ELSE samples_to_copy

\* lines 526-527
Part2Count(samples_to_copy, cap) ==
    IF samples_to_copy > 0
    THEN (IF samples_to_copy > cap THEN cap ELSE samples_to_copy)
    ELSE 0

\* the two copy loops, lines 517-521 and 528-530, and rc of line 535
CopyURBBufferData(target, source_samples, offset, cap) ==
    LET p1   == Part1Count(source_samples, offset, cap)
        t1   == [j \in DOMAIN target |->
                    IF j >= offset /\ j < offset + p1
                    THEN SourceData[j - offset] ELSE target[j]]
        rest == source_samples - p1
        p2   == Part2Count(rest, cap)
        t2   == [j \in DOMAIN target |->
                    IF j < p2 THEN SourceData[p1 + j] ELSE t1[j]]
    IN  [target |-> t2, rc |-> source_samples - (rest - p2)]

(***************************************************************************)
(* Session parameters derived from the sample rate (lines 213, 241-245).   *)
(* C integer division truncates toward zero; lround rounds to the nearest  *)
(* integer, halves away from zero.  The quotient sample_rate / 48000 of    *)
(* two 32 bit integers is computed in double precision, which separates it *)
(* from every half-integer it is not equal to, so lround of the double is  *)
(* lround of the exact quotient.                                           *)
(***************************************************************************)
TARGET_AUDIO_OUT_RATE == 48000

Abs(x) == IF x < 0 THEN 0 - x ELSE x

Sign(x) == IF x < 0 THEN 0 - 1 ELSE 1

CDiv(a, b) == Sign(a) * Sign(b) * (Abs(a) \div Abs(b))

Lround_truncate(num, den) == CDiv(num, den)

Lround(num, den) ==
    Sign(num) * Sign(den) * ((2 * Abs(num) + Abs(den)) \div (2 * Abs(den)))

NominalSamplesPerFrame(sample_rate) == CDiv(sample_rate, 1000)

DecimationFactor(sample_rate) ==
    LET f == Lround(sample_rate, TARGET_AUDIO_OUT_RATE)
    IN  IF f = 0 THEN 1 ELSE f

AudioOutRate(sample_rate) == CDiv(sample_rate, DecimationFactor(sample_rate))

(***************************************************************************)
(* Lines 373-380: the stereo merge of one reaped transfer, in place in the *)
(* slot's buffer.  pData is the buffer as a function from sample index,    *)
(* actual_samples_read the number of samples the transfer delivered.  The  *)
(* loop runs while i < actual_samples_read, so it also rewrites the second *)
(* half of the delivered samples from what lies behind them in the buffer. *)
(* x >> 1 on a negative int is the arithmetic shift every supported        *)
(* compiler produces: the floor of x / 2.                                  *)
(***************************************************************************)
ToShort(x) == ((x + 32768) % 65536) - 32768

Average_towardzero(a, b) == ToShort(CDiv(a + b, 2))

Average(a, b) == ToShort((a + b) \div 2)

RECURSIVE MergeLoop(_, _, _)
MergeLoop(pData, i, actual_samples_read) ==
    IF i < actual_samples_read
    THEN MergeLoop([pData EXCEPT ![i] = Average(pData[2 * i], pData[2 * i + 1])],
                   i + 1, actual_samples_read)
    ELSE pData

\* lines 375-378: the sample indices the loop reads, pData[j] and pData[j + 1]
\* with j = 2 i for every i it runs through
MergeReads(actual_samples_read) ==
    UNION { {2 * i, 2 * i + 1} : i \in 0 .. (actual_samples_read - 1) }

MergeStereo(pData, actual_samples_read) ==
    [pData |-> MergeLoop(pData, 0, actual_samples_read),
     actual_samples_read |-> actual_samples_read \div 2]

(***************************************************************************)
(* The tone mixer and anti-aliasing filter of write_audio_output (lines    *)
(* 739-800).  The filter multiplies 32 bit values in 64 bit arithmetic;    *)
(* the products are computed here in limbs of 15 bits so that no           *)
(* intermediate value leaves the 32 bit range of the checker's integers.   *)
(* The results are the exact 64 bit results.                               *)
(***************************************************************************)
INT16_MAX == 32767

INT16_MIN == 0 - 32768

CANARY_DATA_VALUE == 0 - 1330        \* (data_t) 0xFACE

DOWNSAMPLING_AA_STAGES == 4

Limb == 32768

\* a * b for 0 <= a, b < 2^31, as [q, r] with a * b = q * 2^31 + r, 0 <= r < 2^31
MulNat(a, b) ==
    LET a0 == a % Limb
        a1 == (a \div Limb) % Limb
        a2 == a \div (Limb * Limb)
        b0 == b % Limb
        b1 == (b \div Limb) % Limb
        b2 == b \div (Limb * Limb)
        t0 == a0 * b0
        t1 == a0 * b1 + a1 * b0 + (t0 \div Limb)
        t2 == a0 * b2 + a1 * b1 + a2 * b0 + (t1 \div Limb)
        t3 == a1 * b2 + a2 * b1 + (t2 \div Limb)
        t4 == a2 * b2 + (t3 \div Limb)
        d0 == t0 % Limb
        d1 == t1 % Limb
        d2 == t2 % Limb
        d3 == t3 % Limb
    IN  [q |-> t4 * 536870912 + d3 * 16384 + (d2 \div 2),
         r |-> (d2 % 2) * 1073741824 + d1 * Limb + d0]

\* c * f for 0 <= c < 2^31 and |f| < 2^31, as [q, r] with c * f = q * 2^31 + r,
\* 0 <= r < 2^31 (q is the product shifted right by 31 bits)
MulShift(c, f) ==
    LET m == MulNat(c, Abs(f))
    IN  IF f >= 0 THEN m
        ELSE IF m.r = 0 THEN [q |-> 0 - m.q, r |-> 0]
        ELSE [q |-> 0 - m.q - 1, r |-> (2147483647 - m.r) + 1]

\* lines 767-770: one stage, (coefficient * filtered +
\* ((1LL << 31) - coefficient) * previous) >> 31
FilterStage(coefficient, filtered, previous) ==
    IF coefficient = 0 THEN previous
    ELSE LET x == MulShift(coefficient, filtered)
             y == MulShift((2147483647 - coefficient) + 1, previous)
         IN  x.q + y.q + (IF x.r > 2147483647 - y.r THEN 1 ELSE 0)

\* lines 766-772: the four stages; the result is [filtered, previous]
RECURSIVE FilterStages(_, _, _, _)
FilterStages(coefficient, filtered, previous, order) ==
    IF order > DOWNSAMPLING_AA_STAGES
    THEN [filtered |-> filtered, previous |-> previous]
    ELSE LET f == FilterStage(coefficient, filtered, previous[order])
         IN  FilterStages(coefficient, f, [previous EXCEPT ![order] = f], order + 1)

\* lines 88-93: lround((1 - exp(-2 pi 3000 / rate)) * 2^31), tabulated for the
\* sample rates the specifications use
calculate_iir_coefficient(sample_rate_hz) ==
    CASE sample_rate_hz = 4000 -> 2128192177
      [] sample_rate_hz = 72000 -> 494639760
      [] sample_rate_hz = 120000 -> 312166815
      [] sample_rate_hz = 384000 -> 102868919

\* lines 630-636: s_reference_data[0 .. n-1], cos(i * pi2 / n) * 0x7FFE converted
\* to int16_t (truncated), tabulated for the table lengths the specifications use
ReferenceCosine(n) ==
    CASE n = 0 -> << >>
      [] n = 4 ->
           << 32766, 0, 0 - 32765, 0 >>
      [] n = 72 ->
           << 32766, 32641, 32268, 31649, 30789, 29696, 28376, 26840,
              25100, 23169, 21061, 18793, 16382, 13847, 11206, 8480, 5689,
              2855, 0, 0 - 2855, 0 - 5689, 0 - 8480, 0 - 11206, 0 - 13847,
              0 - 16383, 0 - 18793, 0 - 21061, 0 - 23169, 0 - 25100,
              0 - 26840, 0 - 28376, 0 - 29696, 0 - 30789, 0 - 31649,
              0 - 32268, 0 - 32641, 0 - 32765, 0 - 32641, 0 - 32268,
              0 - 31649, 0 - 30789, 0 - 29696, 0 - 28376, 0 - 26840,
              0 - 25100, 0 - 23169, 0 - 21061, 0 - 18793, 0 - 16382,
              0 - 13847, 0 - 11206, 0 - 8480, 0 - 5689, 0 - 2855, 0, 2855,
              5689, 8480, 11206, 13847, 16383, 18793, 21061, 23169, 25100,
              26840, 28376, 29696, 30789, 31649, 32268, 32641 >>
      [] n = 120 ->
           << 32766, 32721, 32586, 32362, 32049, 31649, 31162, 30589,
              29933, 29194, 28376, 27479, 26508, 25463, 24349, 23169,
              21924, 20620, 19259, 17845, 16382, 14875, 13327, 11742,
              10125, 8480, 6812, 5125, 3424, 1714, 0, 0 - 1714, 0 - 3424,
              0 - 5125, 0 - 6812, 0 - 8480, 0 - 10125, 0 - 11742,
              0 - 13327, 0 - 14875, 0 - 16383, 0 - 17845, 0 - 19259,
              0 - 20620, 0 - 21924, 0 - 23169, 0 - 24349, 0 - 25463,
              0 - 26508, 0 - 27479, 0 - 28376, 0 - 29194, 0 - 29933,
              0 - 30589, 0 - 31162, 0 - 31649, 0 - 32049, 0 - 32362,
              0 - 32586, 0 - 32721, 0 - 32765, 0 - 32721, 0 - 32586,
              0 - 32362, 0 - 32049, 0 - 31649, 0 - 31162, 0 - 30589,
              0 - 29933, 0 - 29194, 0 - 28376, 0 - 27479, 0 - 26508,
              0 - 25463, 0 - 24349, 0 - 23169, 0 - 21924, 0 - 20620,
              0 - 19259, 0 - 17845, 0 - 16382, 0 - 14875, 0 - 13327,
              0 - 11742, 0 - 10125, 0 - 8480, 0 - 6812, 0 - 5125, 0 - 3424,
              0 - 1714, 0, 1714, 3424, 5125, 6812, 8480, 10125, 11742,
              13327, 14875, 16383, 17845, 19259, 20620, 21924, 23169,
              24349, 25463, 26508, 27479, 28376, 29194, 29933, 30589,
              31162, 31649, 32049, 32362, 32586, 32721 >>
      [] n = 384 ->
           << 32766, 32761, 32748, 32726, 32695, 32656, 32608, 32551,
              32485, 32411, 32328, 32236, 32136, 32027, 31910, 31784,
              31649, 31506, 31355, 31195, 31027, 30850, 30665, 30472,
              30271, 30062, 29845, 29620, 29386, 29145, 28897, 28640,
              28376, 28104, 27824, 27538, 27243, 26942, 26633, 26317,
              25995, 25665, 25328, 24984, 24634, 24278, 23914, 23545,
              23169, 22786, 22398, 22004, 21604, 21198, 20786, 20369,
              19946, 19518, 19085, 18647, 18203, 17755, 17302, 16845,
              16382, 15916, 15445, 14970, 14492, 14009, 13522, 13032,
              12539, 12042, 11541, 11038, 10532, 10023, 9511, 8997, 8480,
              7961, 7440, 6917, 6392, 5865, 5337, 4807, 4276, 3744, 3211,
              2677, 2142, 1607, 1072, 536, 0, 0 - 536, 0 - 1072, 0 - 1607,
              0 - 2142, 0 - 2677, 0 - 3211, 0 - 3744, 0 - 4276, 0 - 4807,
              0 - 5337, 0 - 5865, 0 - 6392, 0 - 6917, 0 - 7440, 0 - 7961,
              0 - 8480, 0 - 8997, 0 - 9511, 0 - 10023, 0 - 10532,
              0 - 11038, 0 - 11541, 0 - 12042, 0 - 12539, 0 - 13032,
              0 - 13522, 0 - 14009, 0 - 14492, 0 - 14970, 0 - 15445,
              0 - 15916, 0 - 16383, 0 - 16845, 0 - 17302, 0 - 17755,
              0 - 18203, 0 - 18647, 0 - 19085, 0 - 19518, 0 - 19946,
              0 - 20369, 0 - 20786, 0 - 21198, 0 - 21604, 0 - 22004,
              0 - 22398, 0 - 22786, 0 - 23169, 0 - 23545, 0 - 23914,
              0 - 24278, 0 - 24634, 0 - 24984, 0 - 25328, 0 - 25665,
              0 - 25995, 0 - 26317, 0 - 26633, 0 - 26942, 0 - 27243,
              0 - 27538, 0 - 27824, 0 - 28104, 0 - 28376, 0 - 28640,
              0 - 28897, 0 - 29145, 0 - 29386, 0 - 29620, 0 - 29845,
              0 - 30062, 0 - 30271, 0 - 30472, 0 - 30665, 0 - 30850,
              0 - 31027, 0 - 31195, 0 - 31355, 0 - 31506, 0 - 31649,
              0 - 31784, 0 - 31910, 0 - 32027, 0 - 32136, 0 - 32236,
              0 - 32328, 0 - 32411, 0 - 32485, 0 - 32551, 0 - 32608,
              0 - 32656, 0 - 32695, 0 - 32726, 0 - 32748, 0 - 32761,
              0 - 32765, 0 - 32761, 0 - 32748, 0 - 32726, 0 - 32695,
              0 - 32656, 0 - 32608, 0 - 32551, 0 - 32485, 0 - 32411,
              0 - 32328, 0 - 32236, 0 - 32136, 0 - 32027, 0 - 31910,
              0 - 31784, 0 - 31649, 0 - 31506, 0 - 31355, 0 - 31195,
              0 - 31027, 0 - 30850, 0 - 30665, 0 - 30472, 0 - 30271,
              0 - 30062, 0 - 29845, 0 - 29620, 0 - 29386, 0 - 29145,
              0 - 28897, 0 - 28640, 0 - 28376, 0 - 28104, 0 - 27824,
              0 - 27538, 0 - 27243, 0 - 26942, 0 - 26633, 0 - 26317,
              0 - 25995, 0 - 25665, 0 - 25328, 0 - 24984, 0 - 24634,
              0 - 24278, 0 - 23914, 0 - 23545, 0 - 23169, 0 - 22786,
              0 - 22398, 0 - 22004, 0 - 21604, 0 - 21198, 0 - 20786,
              0 - 20369, 0 - 19946, 0 - 19518, 0 - 19085, 0 - 18647,
              0 - 18203, 0 - 17755, 0 - 17302, 0 - 16845, 0 - 16382,
              0 - 15916, 0 - 15445, 0 - 14970, 0 - 14492, 0 - 14009,
              0 - 13522, 0 - 13032, 0 - 12539, 0 - 12042, 0 - 11541,
              0 - 11038, 0 - 10532, 0 - 10023, 0 - 9511, 0 - 8997,
              0 - 8480, 0 - 7961, 0 - 7440, 0 - 6917, 0 - 6392, 0 - 5865,
              0 - 5337, 0 - 4807, 0 - 4276, 0 - 3744, 0 - 3211, 0 - 2677,
              0 - 2142, 0 - 1607, 0 - 1072, 0 - 536, 0, 536, 1072, 1607,
              2143, 2677, 3211, 3744, 4276, 4807, 5337, 5865, 6392, 6917,
              7440, 7961, 8480, 8997, 9511, 10023, 10532, 11038, 11541,
              12042, 12539, 13032, 13522, 14009, 14492, 14970, 15445,
              15916, 16383, 16845, 17302, 17755, 18203, 18647, 19085,
              19518, 19946, 20369, 20786, 21198, 21604, 22004, 22398,
              22786, 23169, 23545, 23914, 24278, 24634, 24984, 25328,
              25665, 25995, 26317, 26633, 26942, 27243, 27538, 27824,
              28104, 28376, 28640, 28897, 29145, 29386, 29620, 29845,
              30062, 30271, 30472, 30665, 30850, 31027, 31195, 31355,
              31506, 31649, 31784, 31910, 32027, 32136, 32236, 32328,
              32411, 32485, 32551, 32608, 32656, 32695, 32726, 32748, 32761 >>

\* s_reference_data[i] for 0 <= i <= MAX_REFERENCE_LEN when the table in it has
\* length len and no longer table was built before: the table, the canary
\* behind it (line 637), then the zeros of the static initialiser
ReferenceData(len, i) ==
    IF i < len THEN ReferenceCosine(len)[i + 1]
    ELSE IF len > 0 /\ i = len THEN CANARY_DATA_VALUE
    ELSE 0

\* lines 781-786
Saturate(filtered) ==
    IF filtered > INT16_MAX THEN INT16_MAX
    ELSE IF filtered < INT16_MIN THEN INT16_MIN
    ELSE filtered

RECURSIVE Pow2(_)
Pow2(k) == IF k = 0 THEN 1 ELSE 2 * Pow2(k - 1)

\* lines 775-776: ++decimation_counter == s_decimation_factor, then the reset
DecimationCounterAfter_noreset(decimation_counter, decimation_factor) ==
    decimation_counter + 1

DecimationCounterAfter(decimation_counter, decimation_factor) ==
    IF decimation_counter + 1 = decimation_factor THEN 0 ELSE decimation_counter + 1

\* lines 792-799: one step of a reference index
StepReference(index, heterodyne_kHz, reference_len) ==
    IF index + heterodyne_kHz >= reference_len
    THEN index + heterodyne_kHz - reference_len
    ELSE index + heterodyne_kHz

\* lines 758-800: the body of the loop for one sample x = pBuffer[i].
\* st: [i, previous, ref1, ref2, decimation_counter, out, at] where out is
\* downsampled_buffer[0 .. decimated_sample_count - 1] and at lists the i at
\* which a sample was emitted; p: the statics read by the loop.
\* |x * reference| <= 32768 * 32766, so mixed stays within 32 bits.
WriteSample(st, x, p) ==
    LET mixed == x * ReferenceData(p.reference_len, st.ref1)
                 + (IF p.heterodyne2_kHz # 0
                    THEN x * ReferenceData(p.reference_len, st.ref2) ELSE 0)
        fs == FilterStages(p.coefficient, mixed, st.previous, 1)
        emit == st.decimation_counter + 1 = p.decimation_factor
        sample == ToShort(Saturate(fs.filtered \div Pow2(15 - p.boost_shift)))
    IN  [i |-> st.i + 1,
         previous |-> fs.previous,
         ref1 |-> StepReference(st.ref1, p.heterodyne1_kHz, p.reference_len),
         ref2 |-> StepReference(st.ref2, p.heterodyne2_kHz, p.reference_len),
         decimation_counter |->
             DecimationCounterAfter(st.decimation_counter, p.decimation_factor),
         out |-> IF emit THEN Append(st.out, sample) ELSE st.out,
         at |-> IF emit THEN Append(st.at, st.i) ELSE st.at]

\* lines 749-750: the locals at the start of a call
WriteStart(previous, ref1, ref2) ==
    [i |-> 0, previous |-> previous, ref1 |-> ref1, ref2 |-> ref2,
     decimation_counter |-> 0, out |-> << >>, at |-> << >>]

\* lines 756-800: the loop over a run pBuffer, with the statics unchanged by
\* other threads during the call
RECURSIVE WriteLoop(_, _, _)
WriteLoop(st, pBuffer, p) ==
    IF st.i < Len(pBuffer)
    THEN WriteLoop(WriteSample(st, pBuffer[st.i + 1], p), pBuffer, p)
    ELSE st

(***************************************************************************)
(* Initial state: the module's statics as initialised at load time, no     *)
(* call in progress.                                                       *)
(***************************************************************************)
NoRate == -1

NoWrite == [phase |-> "idle"]

NullMap == [alloc |-> 0, data |-> << >>]

NoRender == [phase |-> "idle"]

CaptureInit ==
    /\ mutex = FreeMutex
    /\ wpc = "idle"
    /\ i_submit = 0
    /\ slot = [u \in Slots |-> "idle"]
    /\ balls_in_the_air = 0
    /\ ret = 0
    /\ errno = 0
    /\ urbReaped = NoUrb
    /\ actual_length = 0
    /\ bridgeOk = FALSE
    /\ s_cancel_pending = FALSE
    /\ s_paused = FALSE
    /\ s_fd_file = -1
    /\ s_num_channels = 0
    /\ s_nominal_samples_per_frame = 0
    /\ s_android_stream = FALSE
    /\ cb = << >>
    /\ aw = << >>
    /\ status = 0
    /\ retpath = "none"
    /\ s_sample_rate = 0
    /\ s_decimation_factor = 0
    /\ s_audio_out_rate = 0
    /\ s_downsampling_iir_coefficient = 0
    /\ s_reference_len = 0
    /\ stream_sample_rate = NoRate
    /\ s_heterodyne1_kHz = 0
    /\ s_heterodyne2_kHz = 0
    /\ s_audio_boost_shift = 0
    /\ s_reference1_index = 0
    /\ s_reference2_index = 0
    /\ s_downsampling_filter_state = << 0, 0, 0, 0 >>
    /\ wa = NoWrite
    /\ open_fds = {}
    /\ bad_close = FALSE
    /\ s_already_initialized = FALSE
    /\ s_colourMapData = NullMap
    /\ s_colourMapDataSize = 0
    /\ s_amplitude_graph_colour = 65535
    /\ freed = {}
    /\ map_loads = 0
    /\ map_rc = 0
    /\ render = NoRender

NoCopy == [phase |-> "none"]

NoCall == [fn |-> "none"]

Init ==
    /\ CaptureInit
    /\ copy = NoCopy
    /\ call = NoCall

\* lines 208 and 215: the two range tests of NativeUSB_stream
MAX_CHANNELS == 2

MAX_SAMPLES_PER_FRAME == 385

ValidStart(num_channels, samples_per_frame) ==
    /\ num_channels >= 1
    /\ num_channels <= MAX_CHANNELS
    /\ samples_per_frame >= 1
    /\ samples_per_frame <= MAX_SAMPLES_PER_FRAME

(***************************************************************************)
(* NativeUSB_stream, lines 200-300: entry, session parameters, request     *)
(* initialisation.  The range tests of lines 208-218 log and fall through. *)
(***************************************************************************)
StreamEnter(num_channels, sample_rate, found) ==
    /\ wpc \in {"idle", "returned"}
    /\ CanLock(mutex, "worker")
    /\ mutex' = Lock(mutex, "worker")
    /\ s_nominal_samples_per_frame' = NominalSamplesPerFrame(sample_rate)
    /\ bridgeOk' = found
    /\ s_cancel_pending' = FALSE
    /\ s_num_channels' = num_channels
    /\ slot' = [u \in Slots |-> "idle"]
    /\ balls_in_the_air' = 0
    /\ i_submit' = 0
    /\ urbReaped' = NoUrb
    /\ actual_length' = 0
    /\ cb' = << >>
    /\ aw' = << >>
    /\ retpath' = "none"
    /\ status' = 0
    /\ wpc' = "submit"
    /\ s_sample_rate' = sample_rate
    /\ s_decimation_factor' = DecimationFactor(sample_rate)
    /\ s_audio_out_rate' = AudioOutRate(sample_rate)
    /\ s_downsampling_iir_coefficient' = calculate_iir_coefficient(sample_rate)
    /\ UNCHANGED << ret, errno, s_paused, s_fd_file, s_android_stream, copy, call,
                    audioVars, recVars, mapVars >>

(***************************************************************************)
(* Lines 308-320: the initial submit loop, one ioctl per step.             *)
(***************************************************************************)
\* The locals of NativeUSB_stream, and the worker's errno, once the call has
\* returned: nothing reads them again, they are put back to their values
\* before a call.
LocalsGone ==
    /\ i_submit' = 0
    /\ balls_in_the_air' = 0
    /\ ret' = 0
    /\ errno' = 0
    /\ urbReaped' = NoUrb
    /\ actual_length' = 0
    /\ bridgeOk' = FALSE
    /\ cb' = << >>
    /\ aw' = << >>

InitialSubmitOk ==
    /\ wpc = "submit"
    /\ slot' = [slot EXCEPT ![i_submit] = "inflight"]
    /\ balls_in_the_air' = balls_in_the_air + 1
    /\ ret' = 0
    /\ i_submit' = i_submit + 1
    /\ wpc' = IF i_submit + 1 < URBS_TO_JUGGLE THEN "submit" ELSE "loop"
    /\ UNCHANGED << mutex, errno, urbReaped, actual_length, bridgeOk, s_cancel_pending,
                    s_paused, s_fd_file, s_num_channels, s_nominal_samples_per_frame,
                    s_android_stream, cb, aw, status, retpath, copy, call,
                    sessionVars, audioVars, recVars, mapVars >>

InitialSubmitInterrupted ==
    /\ wpc = "submit"
    /\ balls_in_the_air - i_submit < MaxEintr
    /\ balls_in_the_air' = balls_in_the_air + 1
    /\ ret' = -1
    /\ errno' = EINTR
    /\ UNCHANGED << mutex, wpc, i_submit, slot, urbReaped, actual_length, bridgeOk,
                    s_cancel_pending, s_paused, s_fd_file, s_num_channels,
                    s_nominal_samples_per_frame, s_android_stream, cb, aw, status,
                    retpath, copy, call,
                    sessionVars, audioVars, recVars, mapVars >>

InitialSubmitFailed(e) ==
    /\ wpc = "submit"
    /\ mutex' = Unlock(mutex)
    /\ status' = e
    /\ retpath' = "initial_submit_failed"
    /\ wpc' = "returned"
    /\ LocalsGone
    /\ UNCHANGED << slot, s_cancel_pending,
                    s_paused, s_fd_file, s_num_channels, s_nominal_samples_per_frame,
                    s_android_stream, copy, call,
                    sessionVars, audioVars, recVars, mapVars >>

(***************************************************************************)
(* Lines 326-339: the loop test, then the unlock before the wait.          *)
(***************************************************************************)
LoopTest ==
    /\ wpc = "loop"
    /\ IF KeepJuggling(s_cancel_pending, balls_in_the_air)
       THEN /\ urbReaped' = NoUrb
            /\ actual_length' = 0
            /\ cb' = << >>
            /\ aw' = << >>
            /\ mutex' = ReleaseForWait(mutex)
            /\ wpc' = "reap"
            /\ UNCHANGED retpath
       ELSE /\ retpath' = "drained"
            /\ wpc' = "exit"
            /\ UNCHANGED << urbReaped, actual_length, cb, aw, mutex >>
    /\ UNCHANGED << i_submit, slot, balls_in_the_air, ret, errno, bridgeOk,
                    s_cancel_pending, s_paused, s_fd_file, s_num_channels,
                    s_nominal_samples_per_frame, s_android_stream, status, copy, call,
                    sessionVars, audioVars, recVars, mapVars >>

(***************************************************************************)
(* Line 340: ioctl(USBDEVFS_REAPURB), entered without the mutex.           *)
(***************************************************************************)
ReapOk(u, len) ==
    /\ wpc = "reap"
    /\ slot[u] = "inflight"
    /\ slot' = [slot EXCEPT ![u] = "idle"]
    /\ urbReaped' = u
    /\ actual_length' = len
    /\ ret' = 0
    /\ wpc' = "relock"
    /\ UNCHANGED << mutex, i_submit, balls_in_the_air, errno, bridgeOk, s_cancel_pending,
                    s_paused, s_fd_file, s_num_channels, s_nominal_samples_per_frame,
                    s_android_stream, cb, aw, status, retpath, copy, call,
                    sessionVars, audioVars, recVars, mapVars >>

ReapFailed(e) ==
    /\ wpc = "reap"
    /\ ret' = -1
    /\ errno' = e
    /\ wpc' = "relock"
    /\ UNCHANGED << mutex, i_submit, slot, balls_in_the_air, urbReaped, actual_length,
                    bridgeOk, s_cancel_pending, s_paused, s_fd_file, s_num_channels,
                    s_nominal_samples_per_frame, s_android_stream, cb, aw, status,
                    retpath, copy, call,
                    sessionVars, audioVars, recVars, mapVars >>

\* line 341: pthread_mutex_lock after the wait
Relock ==
    /\ wpc = "relock"
    /\ CanLock(mutex, "worker")
    /\ mutex' = Lock(mutex, "worker")
    /\ wpc' = "reaped"
    /\ UNCHANGED << i_submit, slot, balls_in_the_air, ret, errno, urbReaped,
                    actual_length, bridgeOk, s_cancel_pending, s_paused, s_fd_file,
                    s_num_channels, s_nominal_samples_per_frame, s_android_stream,
                    cb, aw, status, retpath, copy, call,
                    sessionVars, audioVars, recVars, mapVars >>

(***************************************************************************)
(* Lines 342-416: processing of the reaped URB, the retry test of the      *)
(* do-while, and the error branch after it.  This specification follows    *)
(* the lengths of the transfers; their samples are silence.                *)
(***************************************************************************)
\* the statics read by the loop of write_audio_output
AudioStatics ==
    [reference_len |-> s_reference_len,
     heterodyne1_kHz |-> s_heterodyne1_kHz,
     heterodyne2_kHz |-> s_heterodyne2_kHz,
     boost_shift |-> s_audio_boost_shift,
     coefficient |-> s_downsampling_iir_coefficient,
     decimation_factor |-> s_decimation_factor]

Silence(n) == [i \in 1 .. n |-> 0]

\* line 391: the test made, with s_mutex held, before write_audio_output
AudioSessionActive_always(android_stream) == TRUE

AudioSessionActive(android_stream) == android_stream

\* lines 410-413: the only failure of the wait that leaves the loop
ReapErrorEnds_any(e) == TRUE

ReapErrorEnds(e) == e = ENODEV

ProcessReaped ==
    /\ wpc = "reaped"
    /\ IF ret = 0
       THEN LET n        == MergedSamples(actual_length, s_num_channels)
                notified == ForwardingEnabled(s_paused) /\ bridgeOk /\ ShouldNotify(n)
            IN  /\ balls_in_the_air' = balls_in_the_air - 1
                /\ cb' = IF notified THEN << n >> ELSE << >>
                /\ aw' = IF notified /\ AudioSessionActive(s_android_stream)
                         THEN << n >> ELSE << >>
                /\ IF notified /\ AudioSessionActive(s_android_stream)
                   THEN LET w == WriteLoop(WriteStart(s_downsampling_filter_state,
                                                      s_reference1_index,
                                                      s_reference2_index),
                                           Silence(n), AudioStatics)
                        IN  /\ s_downsampling_filter_state' = w.previous
                            /\ s_reference1_index' = w.ref1
                            /\ s_reference2_index' = w.ref2
                   ELSE UNCHANGED << s_downsampling_filter_state, s_reference1_index,
                                     s_reference2_index >>
                /\ mutex' = IF notified THEN Unlock(Lock(mutex, "worker")) ELSE mutex
                /\ wpc' = "recycle"
                /\ UNCHANGED retpath
       ELSE /\ UNCHANGED << balls_in_the_air, cb, aw, s_downsampling_filter_state,
                            s_reference1_index, s_reference2_index >>
            /\ IF errno = EINTR /\ ~s_cancel_pending
               THEN /\ mutex' = ReleaseForWait(mutex)
                    /\ wpc' = "reap"
                    /\ UNCHANGED retpath
               ELSE IF ReapErrorEnds(errno)
                    THEN /\ retpath' = "reap_device_removed"
                         /\ wpc' = "exit"
                         /\ UNCHANGED mutex
                    ELSE /\ wpc' = "loop"
                         /\ UNCHANGED << mutex, retpath >>
    /\ UNCHANGED << i_submit, slot, ret, errno, urbReaped, actual_length, bridgeOk,
                    s_cancel_pending, s_paused, s_fd_file, s_num_channels,
                    s_nominal_samples_per_frame, s_android_stream, status, copy, call,
                    sessionVars, recVars, mapVars,
                    s_reference_len, stream_sample_rate, s_heterodyne1_kHz,
                    s_heterodyne2_kHz, s_audio_boost_shift, wa >>

(***************************************************************************)
(* Lines 418-433: recycle the request, one ioctl per step.                 *)
(***************************************************************************)
RecycleSkipped ==
    /\ wpc = "recycle"
    /\ ~ShouldResubmit(s_cancel_pending)
    /\ wpc' = "loop"
    /\ UNCHANGED << mutex, i_submit, slot, balls_in_the_air, ret, errno, urbReaped,
                    actual_length, bridgeOk, s_cancel_pending, s_paused, s_fd_file,
                    s_num_channels, s_nominal_samples_per_frame, s_android_stream,
                    cb, aw, status, retpath, copy, call,
                    sessionVars, audioVars, recVars, mapVars >>

\* line 420: req = urbReaped->usercontext, which line 180 set to the slot's
\* own request
RecycledSlot_next(u) == (u + 1) % URBS_TO_JUGGLE

RecycledSlot(u) == u

RecycleOk ==
    /\ wpc = "recycle"
    /\ ShouldResubmit(s_cancel_pending)
    /\ slot' = [slot EXCEPT ![RecycledSlot(urbReaped)] = "inflight"]
    /\ balls_in_the_air' = balls_in_the_air + 1
    /\ ret' = 0
    /\ wpc' = "loop"
    /\ UNCHANGED << mutex, i_submit, errno, urbReaped, actual_length, bridgeOk,
                    s_cancel_pending, s_paused, s_fd_file, s_num_channels,
                    s_nominal_samples_per_frame, s_android_stream, cb, aw, status,
                    retpath, copy, call,
                    sessionVars, audioVars, recVars, mapVars >>

RecycleInterrupted ==
    /\ wpc = "recycle"
    /\ ShouldResubmit(s_cancel_pending)
    /\ ret' = -1
    /\ errno' = EINTR
    /\ UNCHANGED << mutex, wpc, i_submit, slot, balls_in_the_air, urbReaped,
                    actual_length, bridgeOk, s_cancel_pending, s_paused, s_fd_file,
                    s_num_channels, s_nominal_samples_per_frame, s_android_stream,
                    cb, aw, status, retpath, copy, call,
                    sessionVars, audioVars, recVars, mapVars >>

RecycleFailed(e) ==
    /\ wpc = "recycle"
    /\ ShouldResubmit(s_cancel_pending)
    /\ ret' = -1
    /\ errno' = e
    /\ IF e = ENODEV
       THEN /\ retpath' = "submit_device_removed"
            /\ wpc' = "exit"
       ELSE /\ wpc' = "loop"
            /\ UNCHANGED retpath
    /\ UNCHANGED << mutex, i_submit, slot, balls_in_the_air, urbReaped, actual_length,
                    bridgeOk, s_cancel_pending, s_paused, s_fd_file, s_num_channels,
                    s_nominal_samples_per_frame, s_android_stream, cb, aw, status, copy, call,
                    sessionVars, audioVars, recVars, mapVars >>

(***************************************************************************)
(* Lines 436-451: stop_audio_output, stop_recording, unlock, return.       *)
(***************************************************************************)
StreamExit ==
    /\ wpc = "exit"
    /\ s_android_stream' = FALSE
    /\ stream_sample_rate' = NoRate
    /\ s_fd_file' = -1
    /\ open_fds' = FdsAfterStop(s_fd_file, open_fds)
    /\ bad_close' = (bad_close \/ BadClose(s_fd_file, open_fds))
    /\ mutex' = Unlock(mutex)
    /\ status' = ReturnStatus(ret, errno)
    /\ wpc' = "returned"
    /\ LocalsGone
    /\ UNCHANGED << slot, s_cancel_pending, s_paused, s_num_channels,
                    s_nominal_samples_per_frame, retpath, copy, call,
                    sessionVars, mapVars,
                    s_reference_len, s_heterodyne1_kHz, s_heterodyne2_kHz,
                    s_audio_boost_shift, s_reference1_index, s_reference2_index,
                    s_downsampling_filter_state, wa >>

(***************************************************************************)
(* Entry points called on the UI thread.                                   *)
(***************************************************************************)
\* line 459: the pause flag cancelStream leaves
PausedAfterCancel_kept(paused) == paused

PausedAfterCancel(paused) == FALSE

\* lines 454-461
CancelStream ==
    /\ CanLock(mutex, "ui")
    /\ s_cancel_pending' = TRUE
    /\ s_paused' = PausedAfterCancel(s_paused)
    /\ mutex' = Unlock(Lock(mutex, "ui"))
    /\ UNCHANGED << wpc, i_submit, slot, balls_in_the_air, ret, errno, urbReaped,
                    actual_length, bridgeOk, s_fd_file, s_num_channels,
                    s_nominal_samples_per_frame, s_android_stream, cb, aw, status,
                    retpath, copy, call,
                    sessionVars, audioVars, recVars, mapVars >>

\* lines 463-472
PauseStream ==
    /\ CanLock(mutex, "ui")
    /\ s_paused' = TRUE
    /\ mutex' = Unlock(Lock(mutex, "ui"))
    /\ UNCHANGED << wpc, i_submit, slot, balls_in_the_air, ret, errno, urbReaped,
                    actual_length, bridgeOk, s_cancel_pending, s_fd_file, s_num_channels,
                    s_nominal_samples_per_frame, s_android_stream, cb, aw, status,
                    retpath, copy, call,
                    sessionVars, audioVars, recVars, mapVars >>

\* lines 474-482
ResumeStream ==
    /\ CanLock(mutex, "ui")
    /\ s_paused' = FALSE
    /\ mutex' = Unlock(Lock(mutex, "ui"))
    /\ UNCHANGED << wpc, i_submit, slot, balls_in_the_air, ret, errno, urbReaped,
                    actual_length, bridgeOk, s_cancel_pending, s_fd_file, s_num_channels,
                    s_nominal_samples_per_frame, s_android_stream, cb, aw, status,
                    retpath, copy, call,
                    sessionVars, audioVars, recVars, mapVars >>

\* line 585: fd >= 0 && start_recording(fd); start_recording returns true
RecordingAccepted(fd) == fd >= 0

StartRecordingFdResult(fd) == RecordingAccepted(fd)

\* lines 565-586: startRecordingFd; a negative fd returns false before any
\* lock is taken.  The descriptor passed in is open, and it is the module's
\* from here on.
StartRecordingFd(fd) ==
    /\ RecordingAccepted(fd) => CanLock(mutex, "ui")
    /\ IF RecordingAccepted(fd)
       THEN /\ s_fd_file' = fd
            /\ open_fds' = FdsAfterStop(s_fd_file, open_fds) \cup {fd}
            /\ bad_close' = (bad_close \/ BadClose(s_fd_file, open_fds))
            /\ mutex' = Unlock(Lock(mutex, "ui"))
       ELSE UNCHANGED << s_fd_file, open_fds, bad_close, mutex >>
    /\ UNCHANGED << wpc, i_submit, slot, balls_in_the_air, ret, errno, urbReaped,
                    actual_length, bridgeOk, s_cancel_pending, s_paused, s_num_channels,
                    s_nominal_samples_per_frame, s_android_stream, cb, aw, status,
                    retpath, copy, call, sessionVars, audioVars, mapVars >>

\* lines 549-559, 588-592
StopRecording ==
    /\ CanLock(mutex, "ui")
    /\ s_fd_file' = -1
    /\ open_fds' = FdsAfterStop(s_fd_file, open_fds)
    /\ bad_close' = (bad_close \/ BadClose(s_fd_file, open_fds))
    /\ mutex' = Unlock(Lock(mutex, "ui"))
    /\ UNCHANGED << wpc, i_submit, slot, balls_in_the_air, ret, errno, urbReaped,
                    actual_length, bridgeOk, s_cancel_pending, s_paused, s_num_channels,
                    s_nominal_samples_per_frame, s_android_stream, cb, aw, status,
                    retpath, copy, call, sessionVars, audioVars, mapVars >>

\* lines 614-616: the table length startAudio uses
ReferenceLenFor(samples_per_frame) ==
    IF samples_per_frame > MAX_REFERENCE_LEN THEN MAX_REFERENCE_LEN ELSE samples_per_frame

\* lines 614-618: the range test of startAudio
ToneRejected_first(h1, h2, samples_per_frame) ==
    h1 > ReferenceLenFor(samples_per_frame)

ToneRejected(h1, h2, samples_per_frame) ==
    LET n == ReferenceLenFor(samples_per_frame)
    IN  h1 > n \/ h2 > n

\* lines 660-726: start_audio_output by what AAudio answers; the stream
\* pointer is set once openStream has succeeded, the result is true once
\* requestStart has
StreamSet(outcome) == outcome \in {"start_failed", "started"}

StartAudioOutputResult(outcome) == outcome = "started"

\* lines 621 and 645-649: the value startAudio returns
StartAudioResult(h1, h2, samples_per_frame, outcome) ==
    ~ToneRejected(h1, h2, samples_per_frame) /\ StartAudioOutputResult(outcome)

\* lines 605-622: startAudio leaving through "return false" of the range test;
\* the filter is reset and the output stopped before the test, and the mutex
\* locked at line 605 is not unlocked on this path
StartAudioRejected(h1, h2) ==
    /\ CanLock(mutex, "ui")
    /\ ToneRejected(h1, h2, s_nominal_samples_per_frame)
    /\ mutex.count < MaxLeakedLocks
    /\ s_downsampling_filter_state' = << 0, 0, 0, 0 >>
    /\ s_android_stream' = FALSE
    /\ stream_sample_rate' = NoRate
    /\ mutex' = Lock(mutex, "ui")
    /\ UNCHANGED << wpc, i_submit, slot, balls_in_the_air, ret, errno, urbReaped,
                    actual_length, bridgeOk, s_cancel_pending, s_paused, s_fd_file,
                    s_num_channels, s_nominal_samples_per_frame, cb, aw, status,
                    retpath, copy, call, sessionVars, recVars, mapVars,
                    s_reference_len, s_heterodyne1_kHz, s_heterodyne2_kHz,
                    s_audio_boost_shift, s_reference1_index, s_reference2_index, wa >>

\* lines 605-650 and 660-726: startAudio past the range test
StartAudio(h1, h2, audio_boost_shift, outcome) ==
    /\ CanLock(mutex, "ui")
    /\ ~ToneRejected(h1, h2, s_nominal_samples_per_frame)
    /\ s_downsampling_filter_state' = << 0, 0, 0, 0 >>
    /\ s_reference_len' = ReferenceLenFor(s_nominal_samples_per_frame)
    /\ s_heterodyne1_kHz' = h1
    /\ s_heterodyne2_kHz' = h2
    /\ s_audio_boost_shift' = audio_boost_shift
    /\ s_reference1_index' = 0
    /\ s_reference2_index' = 0
    /\ s_android_stream' = StreamSet(outcome)
    /\ stream_sample_rate' = IF StreamSet(outcome) THEN s_audio_out_rate ELSE NoRate
    /\ mutex' = Unlock(Lock(mutex, "ui"))
    /\ UNCHANGED << wpc, i_submit, slot, balls_in_the_air, ret, errno, urbReaped,
                    actual_length, bridgeOk, s_cancel_pending, s_paused, s_fd_file,
                    s_num_channels, s_nominal_samples_per_frame, cb, aw, status,
                    retpath, copy, call, sessionVars, recVars, mapVars, wa >>

\* lines 652-658, 728-737
StopAudio ==
    /\ CanLock(mutex, "ui")
    /\ s_android_stream' = FALSE
    /\ stream_sample_rate' = NoRate
    /\ mutex' = Unlock(Lock(mutex, "ui"))
    /\ UNCHANGED << wpc, i_submit, slot, balls_in_the_air, ret, errno, urbReaped,
                    actual_length, bridgeOk, s_cancel_pending, s_paused, s_fd_file,
                    s_num_channels, s_nominal_samples_per_frame, cb, aw, status,
                    retpath, copy, call, sessionVars, recVars, mapVars,
                    s_reference_len, s_heterodyne1_kHz, s_heterodyne2_kHz,
                    s_audio_boost_shift, s_reference1_index, s_reference2_index,
                    s_downsampling_filter_state, wa >>

\* lines 833-840: setHeterodyne stores the tones, without the mutex and
\* without a range test
SetHeterodyne(h1, h2) ==
    /\ s_heterodyne1_kHz' = h1
    /\ s_heterodyne2_kHz' = h2
    /\ UNCHANGED << mutex, wpc, i_submit, slot, balls_in_the_air, ret, errno, urbReaped,
                    actual_length, bridgeOk, s_cancel_pending, s_paused, s_fd_file,
                    s_num_channels, s_nominal_samples_per_frame, s_android_stream,
                    cb, aw, status, retpath, copy, call, sessionVars, recVars, mapVars,
                    s_reference_len, stream_sample_rate, s_audio_boost_shift,
                    s_reference1_index, s_reference2_index,
                    s_downsampling_filter_state, wa >>

(***************************************************************************)
(* The capture state machine.                                              *)
(***************************************************************************)
Reap == \E u \in Slots, len \in ActualLengths : ReapOk(u, len)

Next ==
    \/ \E c \in ChannelInputs, r \in SampleRates, f \in BOOLEAN : StreamEnter(c, r, f)
    \/ InitialSubmitOk
    \/ InitialSubmitInterrupted
    \/ \E e \in FatalErrnos : InitialSubmitFailed(e)
    \/ LoopTest
    \/ Reap
    \/ \E e \in {EINTR} \cup FatalErrnos : ReapFailed(e)
    \/ Relock
    \/ ProcessReaped
    \/ RecycleSkipped
    \/ RecycleOk
    \/ RecycleInterrupted
    \/ \E e \in FatalErrnos : RecycleFailed(e)
    \/ StreamExit
    \/ CancelStream
    \/ PauseStream
    \/ ResumeStream
    \/ \E fd \in RecFds \ open_fds : StartRecordingFd(fd)
    \/ StopRecording
    \/ \E h1 \in Tones, h2 \in Tones : StartAudioRejected(h1, h2)
    \/ \E h1 \in Tones, h2 \in Tones, b \in Boosts, o \in AudioOutcomes :
           StartAudio(h1, h2, b, o)
    \/ StopAudio

Spec == Init /\ [][Next]_vars

(***************************************************************************)
(* The audio path sample by sample.  A capture session is entered and     *)
(* reaches its completion wait in one step; from then on the worker       *)
(* alternates between the wait, where the UI thread can run, and a call   *)
(* of write_audio_output for the transfer it reaped, which it makes       *)
(* holding s_mutex.  setHeterodyne takes no lock and can run between any  *)
(* two samples.  The transfers carry silence, so the filter state stays   *)
(* at rest and the state is the tones, the phase indices and the counter. *)
(* A lookup outside s_reference_data is undefined; the run is not         *)
(* followed past it.                                                      *)
(***************************************************************************)
AudioRates == {4000}

\* first and second tone offered to startAudio, tones offered to setHeterodyne
AudioTones == {0 - 1, 3, 5}

AudioTones2 == {0, 5}

SetTones == {0, 600}

AudioBoosts == {0, 2}

AudioSamples == {0}

\* lines 200-339 when every initial submit succeeds: the session parameters
\* are written, every slot is submitted and the worker waits
AudioSessionBegin(sample_rate) ==
    /\ wpc = "idle"
    /\ CanLock(mutex, "worker")
    /\ s_nominal_samples_per_frame' = NominalSamplesPerFrame(sample_rate)
    /\ bridgeOk' = TRUE
    /\ s_cancel_pending' = FALSE
    /\ s_num_channels' = 1
    /\ s_sample_rate' = sample_rate
    /\ s_decimation_factor' = DecimationFactor(sample_rate)
    /\ s_audio_out_rate' = AudioOutRate(sample_rate)
    /\ s_downsampling_iir_coefficient' = calculate_iir_coefficient(sample_rate)
    /\ slot' = [u \in Slots |-> "inflight"]
    /\ balls_in_the_air' = URBS_TO_JUGGLE
    /\ i_submit' = URBS_TO_JUGGLE
    /\ wpc' = "reap"
    /\ UNCHANGED << mutex, ret, errno, urbReaped, actual_length, s_paused, s_fd_file,
                    s_android_stream, cb, aw, status, retpath, copy, call,
                    audioVars, recVars, mapVars >>

\* lines 340-395: a transfer of sample_count samples was reaped and
\* write_audio_output is entered for it
AudioRunBegin(sample_count) ==
    /\ wpc = "reap"
    /\ CanLock(mutex, "worker")
    /\ ForwardingEnabled(s_paused)
    /\ bridgeOk
    /\ ShouldNotify(sample_count)
    /\ s_android_stream
    /\ wa = NoWrite
    /\ mutex' = Lock(mutex, "worker")
    /\ wpc' = "reaped"
    /\ wa' = [phase |-> "run", sample_count |-> sample_count, i |-> 0,
              decimation_counter |-> 0, out |-> << >>, at |-> << >>]
    /\ UNCHANGED << i_submit, slot, balls_in_the_air, ret, errno, urbReaped,
                    actual_length, bridgeOk, s_cancel_pending, s_paused, s_fd_file,
                    s_num_channels, s_nominal_samples_per_frame, s_android_stream,
                    cb, aw, status, retpath, copy, call, sessionVars, recVars, mapVars,
                    s_reference_len, stream_sample_rate, s_heterodyne1_kHz,
                    s_heterodyne2_kHz, s_audio_boost_shift, s_reference1_index,
                    s_reference2_index, s_downsampling_filter_state >>

InReferenceArray(index) == index >= 0 /\ index <= MAX_REFERENCE_LEN

\* lines 756-800: one iteration of the loop
AudioSample(x) ==
    /\ wa.phase = "run"
    /\ wa.i < wa.sample_count
    /\ InReferenceArray(s_reference1_index)
    /\ InReferenceArray(s_reference2_index)
    /\ LET st == [i |-> wa.i, previous |-> s_downsampling_filter_state,
                  ref1 |-> s_reference1_index, ref2 |-> s_reference2_index,
                  decimation_counter |-> wa.decimation_counter,
                  out |-> wa.out, at |-> wa.at]
           w  == WriteSample(st, x, AudioStatics)
       IN  /\ s_downsampling_filter_state' = w.previous
           /\ s_reference1_index' = w.ref1
           /\ s_reference2_index' = w.ref2
           /\ wa' = [wa EXCEPT !.i = w.i, !.decimation_counter = w.decimation_counter,
                               !.out = w.out, !.at = w.at]
    /\ UNCHANGED << mutex, wpc, i_submit, slot, balls_in_the_air, ret, errno, urbReaped,
                    actual_length, bridgeOk, s_cancel_pending, s_paused, s_fd_file,
                    s_num_channels, s_nominal_samples_per_frame, s_android_stream,
                    cb, aw, status, retpath, copy, call, sessionVars, recVars, mapVars,
                    s_reference_len, stream_sample_rate, s_heterodyne1_kHz,
                    s_heterodyne2_kHz, s_audio_boost_shift >>

\* lines 801-831 and 396-339: the samples are written to the stream, the
\* transfer is recycled and the worker is back at the wait
AudioRunEnd ==
    /\ wa.phase = "run"
    /\ \/ wa.i = wa.sample_count
       \/ ~InReferenceArray(s_reference1_index)
       \/ ~InReferenceArray(s_reference2_index)
    /\ wa' = NoWrite
    /\ mutex' = Unlock(mutex)
    /\ wpc' = "reap"
    /\ UNCHANGED << i_submit, slot, balls_in_the_air, ret, errno, urbReaped,
                    actual_length, bridgeOk, s_cancel_pending, s_paused, s_fd_file,
                    s_num_channels, s_nominal_samples_per_frame, s_android_stream,
                    cb, aw, status, retpath, copy, call, sessionVars, recVars, mapVars,
                    s_reference_len, stream_sample_rate, s_heterodyne1_kHz,
                    s_heterodyne2_kHz, s_audio_boost_shift, s_reference1_index,
                    s_reference2_index, s_downsampling_filter_state >>

\* startAudio called with the tones h1, h2, on either path
StartAudioCall(h1, h2) ==
    \/ StartAudioRejected(h1, h2)
    \/ \E b \in AudioBoosts, o \in AudioOutcomes : StartAudio(h1, h2, b, o)

AudioNext ==
    \/ \E r \in AudioRates : AudioSessionBegin(r)
    \/ \E h1 \in AudioTones, h2 \in AudioTones2 : StartAudioRejected(h1, h2)
    \/ \E h1 \in AudioTones, h2 \in AudioTones2, b \in AudioBoosts, o \in AudioOutcomes :
           StartAudio(h1, h2, b, o)
    \/ StopAudio
    \/ \E h1 \in SetTones, h2 \in SetTones : SetHeterodyne(h1, h2)
    \/ \E n \in 1 .. MaxRunLen : AudioRunBegin(n)
    \/ \E x \in AudioSamples : AudioSample(x)
    \/ AudioRunEnd

AudioSpec == Init /\ [][AudioNext]_vars

(***************************************************************************)
(* pipeline.cpp: the colour map.  nativeInitialize (lines 47-86) is one    *)
(* step; doColourMapping (lines 405-476) is followed pixel by pixel, on    *)
(* another thread, with no lock between the two.  An allocation is named   *)
(* by a number, 0 for nullptr; operator new may hand out again the block   *)
(* that was just deleted.                                                  *)
(***************************************************************************)
ToU16(x) == x % 65536

\* jshort values of a colour map, and the maps offered to nativeInitialize
MapColours == {0 - 1, 0, 31}

MapInputs == UNION { [1 .. n -> MapColours] : n \in 1 .. MaxMapSize }

AmplitudeColours == {0 - 1, 7}

\* line 60: the test of the early return; no statement outside the guarded
\* block sets the flag
AlreadyInitialized(flag, data) == flag

\* lines 47-86
NativeInitialize(colour_map, amplitude_graph_colour, got, new_alloc) ==
    /\ map_loads < MaxLoads
    /\ map_loads' = map_loads + 1
    /\ s_amplitude_graph_colour' = ToU16(amplitude_graph_colour)
    /\ IF AlreadyInitialized(s_already_initialized, s_colourMapData)
       THEN /\ s_already_initialized' = TRUE
            /\ map_rc' = 0
            /\ UNCHANGED << s_colourMapData, s_colourMapDataSize, freed >>
       ELSE IF got
       THEN /\ new_alloc \in {map_loads + 1} \cup ({s_colourMapData.alloc} \ {0})
            /\ freed' = (freed \cup ({s_colourMapData.alloc} \ {0})) \ {new_alloc}
            /\ s_colourMapDataSize' = Len(colour_map)
            /\ s_colourMapData' =
                   [alloc |-> new_alloc,
                    data |-> [i \in 1 .. Len(colour_map) |-> ToU16(colour_map[i])]]
            /\ map_rc' = 0
            /\ UNCHANGED s_already_initialized
       ELSE /\ map_rc' = 0 - 1
            /\ UNCHANGED << s_already_initialized, s_colourMapData,
                            s_colourMapDataSize, freed >>
    /\ UNCHANGED << mutex, wpc, i_submit, slot, balls_in_the_air, ret, errno, urbReaped,
                    actual_length, bridgeOk, s_cancel_pending, s_paused, s_fd_file,
                    s_num_channels, s_nominal_samples_per_frame, s_android_stream,
                    cb, aw, status, retpath, copy, call, sessionVars, audioVars,
                    recVars, render >>

\* lines 432-435: a rendering call reaches its first pixel; render.alloc is
\* the table it finds
RenderBegin(pixels) ==
    /\ render = NoRender
    /\ s_colourMapData.alloc # 0
    /\ render' = [phase |-> "run", pixels |-> pixels, alloc |-> s_colourMapData.alloc]
    /\ UNCHANGED << mutex, wpc, i_submit, slot, balls_in_the_air, ret, errno, urbReaped,
                    actual_length, bridgeOk, s_cancel_pending, s_paused, s_fd_file,
                    s_num_channels, s_nominal_samples_per_frame, s_android_stream,
                    cb, aw, status, retpath, copy, call, sessionVars, audioVars,
                    recVars, s_already_initialized, s_colourMapData,
                    s_colourMapDataSize, s_amplitude_graph_colour, freed, map_loads,
                    map_rc >>

\* lines 436-463: one pixel is mapped through the table
RenderPixel ==
    /\ render.phase = "run"
    /\ render.pixels > 0
    /\ render' = [render EXCEPT !.pixels = @ - 1]
    /\ UNCHANGED << mutex, wpc, i_submit, slot, balls_in_the_air, ret, errno, urbReaped,
                    actual_length, bridgeOk, s_cancel_pending, s_paused, s_fd_file,
                    s_num_channels, s_nominal_samples_per_frame, s_android_stream,
                    cb, aw, status, retpath, copy, call, sessionVars, audioVars,
                    recVars, s_already_initialized, s_colourMapData,
                    s_colourMapDataSize, s_amplitude_graph_colour, freed, map_loads,
                    map_rc >>

\* lines 467-475
RenderEnd ==
    /\ render.phase = "run"
    /\ render.pixels = 0
    /\ render' = NoRender
    /\ UNCHANGED << mutex, wpc, i_submit, slot, balls_in_the_air, ret, errno, urbReaped,
                    actual_length, bridgeOk, s_cancel_pending, s_paused, s_fd_file,
                    s_num_channels, s_nominal_samples_per_frame, s_android_stream,
                    cb, aw, status, retpath, copy, call, sessionVars, audioVars,
                    recVars, s_already_initialized, s_colourMapData,
                    s_colourMapDataSize, s_amplitude_graph_colour, freed, map_loads,
                    map_rc >>

MapNext ==
    \/ \E m \in MapInputs, c \in AmplitudeColours, got \in BOOLEAN,
          a \in 0 .. MaxLoads : NativeInitialize(m, c, got, a)
    \/ \E n \in 1 .. MaxPixels : RenderBegin(n)
    \/ RenderPixel
    \/ RenderEnd

ColourMapSpec == Init /\ [][MapNext]_vars

(***************************************************************************)
(* Scheduling: the worker thread keeps running, the mutex is granted to a  *)
(* waiting worker, a submit ioctl eventually returns something other than  *)
(* EINTR, and a transfer that is in flight eventually completes and is     *)
(* handed to a waiting REAPURB.  Failures of the wait and the calls of the *)
(* UI thread are not forced.                                               *)
(***************************************************************************)
InitialSubmitReturns == InitialSubmitOk \/ \E e \in FatalErrnos : InitialSubmitFailed(e)

RecycleReturns == RecycleSkipped \/ RecycleOk \/ \E e \in FatalErrnos : RecycleFailed(e)

\* The capture session with the calls of the UI thread that act on the loop:
\* cancel, pause and resume.  Every behaviour of FairNext is one of Next.
FairChannels == {1}

FairNext ==
    \/ \E c \in FairChannels, r \in SampleRates, f \in BOOLEAN : StreamEnter(c, r, f)
    \/ InitialSubmitOk
    \/ InitialSubmitInterrupted
    \/ \E e \in FatalErrnos : InitialSubmitFailed(e)
    \/ LoopTest
    \/ Reap
    \/ \E e \in {EINTR} \cup FatalErrnos : ReapFailed(e)
    \/ Relock
    \/ ProcessReaped
    \/ RecycleSkipped
    \/ RecycleOk
    \/ RecycleInterrupted
    \/ \E e \in FatalErrnos : RecycleFailed(e)
    \/ StreamExit
    \/ CancelStream
    \/ PauseStream
    \/ ResumeStream

FairSpec ==
    /\ Init
    /\ [][FairNext]_vars
    /\ WF_vars(InitialSubmitReturns)
    /\ WF_vars(LoopTest)
    /\ SF_vars(Reap)
    /\ SF_vars(Relock)
    /\ WF_vars(ProcessReaped)
    /\ WF_vars(RecycleReturns)
    /\ WF_vars(StreamExit)

(***************************************************************************)
(* copyURBBufferData as a call of its own: the arguments are drawn in the  *)
(* initial state, the call returns in one step.                            *)
(***************************************************************************)
CopyInit ==
    /\ CaptureInit
    /\ copy \in { [phase |-> "called", source_samples |-> k,
                   target_buffer_offset |-> o, target_buffer_size |-> c,
                   target_buffer |-> FreshRing(c), rc |-> -1] :
                  k \in 0 .. MaxCount, o \in 0 .. (MaxCap - 1), c \in 1 .. MaxCap }
    /\ copy.target_buffer_offset < copy.target_buffer_size
    /\ call = NoCall

CopyReturn ==
    /\ copy.phase = "called"
    /\ LET r == CopyURBBufferData(copy.target_buffer, copy.source_samples,
                                  copy.target_buffer_offset, copy.target_buffer_size)
       IN  copy' = [copy EXCEPT !.phase = "returned", !.target_buffer = r.target,
                                !.rc = r.rc]
    /\ UNCHANGED << captureVars, call >>

CopyNext == CopyReturn

CopySpec == CopyInit /\ [][CopyNext]_vars

(***************************************************************************)
(* Functions of the module that keep no state between calls, each checked  *)
(* as one call: `call' holds the arguments, then the arguments and the     *)
(* result.  The capture state stays as initialised.                        *)
(***************************************************************************)
\* Sample rates offered to the session setup, in steps of 500 Hz, and the
\* two CD rates.
RateInputs == { 500 * k : k \in 0 .. (2 * MaxRateKHz) } \cup {22050, 44100}

DecimationCalls ==
    { [fn |-> "session", phase |-> "called", sample_rate |-> r] : r \in RateInputs }

\* Sample values of a stereo transfer, and what a buffer holds behind the
\* delivered samples (zero after the memset of line 161, or old samples).
MergeSamples == {0 - 32768, 0 - 1, 100, 300, 32767}

StaleFill == {0, 32767}

MergeBuffers(n) ==
    { [j \in 0 .. (4 * MaxPairs - 1) |-> IF j < 2 * n THEN d[j] ELSE fill] :
          d \in [0 .. (2 * n - 1) -> MergeSamples], fill \in StaleFill }

MergeCalls ==
    UNION { { [fn |-> "merge", phase |-> "called", pData |-> b,
               actual_samples_read |-> 2 * n] : b \in MergeBuffers(n) } :
            n \in 0 .. MaxPairs }

\* pipeline.cpp, lines 437-451: the colour index of one pixel.  A float is
\* [k, q]: k = "num" for the finite value q / FloatUnit, "inf" for the
\* infinity of sign q, "nan".  The values used are small multiples of a
\* power of two, on which float subtraction and multiplication are exact.
FloatUnit == 2

Num(q) == [k |-> "num", q |-> q]

Inf(sign) == [k |-> "inf", q |-> sign]

NaN == [k |-> "nan", q |-> 0]

\* x - y for a finite y
FSub(x, y) == IF x.k = "num" THEN Num(x.q - y.q) ELSE x

\* x * y for a finite y; the finite product is in units of 1 / FloatUnit^2
FMul(x, y) ==
    IF x.k = "num" THEN Num(x.q * y.q)
    ELSE IF x.k = "inf" /\ y.q # 0 THEN Inf(x.q * Sign(y.q))
    ELSE NaN

\* line 443: static_cast<int> of a float in units of 1 / FloatUnit^2 truncates
\* a finite value toward zero; of an infinity or a NaN it is undefined, and
\* the result is whatever the build's conversion instruction leaves
FloatToInt(x, undefined_result) ==
    IF x.k = "num" THEN CDiv(x.q, FloatUnit * FloatUnit) ELSE undefined_result

INT_MAX == 2147483647

UndefinedResults == {0 - INT_MAX - 1, 0, INT_MAX}

\* lines 446-449
ClampIndex_upperonly(int_value, size) ==
    IF int_value > size - 1 THEN size - 1 ELSE int_value

ClampIndex(int_value, size) ==
    IF int_value > size - 1 THEN size - 1
    ELSE IF int_value < 0 THEN 0
    ELSE int_value

\* lines 437-449: the index used at line 450
ColourIndex(value, offset, multiplier, size, undefined_result) ==
    ClampIndex(FloatToInt(FMul(FSub(value, offset), multiplier), undefined_result), size)

\* dB values of a spectrogram cell (log10 of 0 is minus infinity), offsets and
\* multipliers of the brightness and contrast settings, in halves
DbValues == { Num(q) : q \in {0 - 200, 0 - 3, 0 - 1, 0, 1, 3, 5, 200} }
                \cup {Inf(0 - 1), Inf(1), NaN}

Offsets == { Num(q) : q \in {0 - 2, 0, 1} }

Multipliers == { Num(q) : q \in {0 - 2, 0, 1, 2, 5} }

ColourCalls ==
    { [fn |-> "colour", phase |-> "called", value |-> v, offset |-> o,
       multiplier |-> m, size |-> n, undefined_result |-> u] :
          v \in DbValues, o \in Offsets, m \in Multipliers, n \in 1 .. MaxMapSize,
          u \in UndefinedResults }

(***************************************************************************)
(* pipeline.cpp, doFft.  The real FFT itself is the kissfft library: for   *)
(* window sizes 2 and 4 the transform has integer twiddle factors and is   *)
(* exact on integer samples.  A dB value is Num(q) (the floor and the      *)
(* threshold, in halves of a dB) or Db(q), 10 log10 of q / DbUnit.         *)
(***************************************************************************)
FftSizes == {2, 4}

\* cosine and sine of k quarter turns
Cos4(k) == << 1, 0, 0 - 1, 0 >>[(k % 4) + 1]

Sin4(k) == << 0, 1, 0, 0 - 1 >>[(k % 4) + 1]

RECURSIVE SumTo(_, _)
SumTo(f, n) == IF n = 0 THEN 0 ELSE f[n] + SumTo(f, n - 1)

\* kiss_fftr: bucket k of the transform of N real samples is
\* sum_n x[n] * exp(-2 pi i k n / N), k in 0 .. N/2
Kiss_fftr(window) ==
    LET N == Len(window)
        turn(k, n) == (4 \div N) * k * (n - 1)
    IN  [ b \in 1 .. (N \div 2 + 1) |->
            [r |-> SumTo([n \in 1 .. N |-> window[n] * Cos4(turn(b - 1, n))], N),
             i |-> 0 - SumTo([n \in 1 .. N |-> window[n] * Sin4(turn(b - 1, n))], N)] ]

DbUnit == 4

Db(q) == [k |-> "dB", q |-> q]

\* lines 241-243: (re * re + im * im) * normalizer2, normalizer = 2 / window
\* size, in units of 1 / DbUnit
MagSquared(c, fft_window_size) ==
    (c.r * c.r + c.i * c.i) * ((4 * DbUnit) \div (fft_window_size * fft_window_size))

\* lines 259-262
DbValue(c, fft_window_size, minDB) ==
    IF MagSquared(c, fft_window_size) > 0 THEN Db(MagSquared(c, fft_window_size))
    ELSE minDB

RECURSIVE Pow10(_)
Pow10(k) == IF k = 0 THEN 1 ELSE 10 * Pow10(k - 1)

\* line 268: db_value >= trigger_threshold, for a threshold that is a whole
\* number of tens of dB: 10 log10(q / DbUnit) >= 10 e  iff  q >= DbUnit * 10^e
\* (no magnitude of the inputs used is a power of ten other than 1, where
\* log2 is exact)
DbAtLeast(db_value, trigger_threshold) ==
    IF db_value.k = "num" THEN db_value.q >= trigger_threshold.q
    ELSE LET e == trigger_threshold.q \div (10 * FloatUnit)
         IN  IF e < 0 THEN TRUE ELSE db_value.q >= DbUnit * Pow10(e)

\* line 267
InTriggerRange_above(j, min_trigger_bucket, max_trigger_bucket) ==
    j > min_trigger_bucket /\ j <= max_trigger_bucket

InTriggerRange(j, min_trigger_bucket, max_trigger_bucket) ==
    j >= min_trigger_bucket /\ j <= max_trigger_bucket

\* lines 213-274 of doFft with all three arrays obtained: transformed maps the
\* indices written in output_slice_buffer to the values written
DoFft(a) ==
    LET buckets == a.fft_window_size \div 2 + 1
        spectrum(w) == Kiss_fftr(SubSeq(a.slices, w * a.fft_window_size + 1,
                                        (w + 1) * a.fft_window_size))
        db(w, j) == DbValue(spectrum(w)[j + 1], a.fft_window_size, a.minDB)
    IN  [transformed |->
            [ t \in a.transformed_buffer_index ..
                      (a.transformed_buffer_index + a.num_windows * buckets - 1) |->
                db((t - a.transformed_buffer_index) \div buckets,
                   (t - a.transformed_buffer_index) % buckets) ],
         triggered |->
            \E w \in 0 .. (a.num_windows - 1), j \in 0 .. (buckets - 1) :
                /\ InTriggerRange(j, a.min_trigger_bucket, a.max_trigger_bucket)
                /\ DbAtLeast(db(w, j), a.trigger_threshold),
         rc |-> a.num_windows]

\* windows: silence, an impulse, an alternating signal
FftWindows(n) ==
    { [j \in 1 .. n |-> 0],
      [j \in 1 .. n |-> IF j = 1 THEN 1 ELSE 0],
      [j \in 1 .. n |-> IF j % 2 = 1 THEN 3 ELSE 0 - 3] }

RECURSIVE Flatten(_)
Flatten(ws) == IF ws = << >> THEN << >> ELSE Head(ws) \o Flatten(Tail(ws))

FftSlices(n) ==
    UNION { { Flatten(ws) : ws \in [1 .. k -> FftWindows(n)] } : k \in 1 .. MaxWindows }

\* floor and threshold in halves of a dB
FloorDbs == { Num(q) : q \in {0 - 200, 0} }

Thresholds == { Num(q) : q \in {0 - 240, 0 - 200, 0, 20} }

FftCalls ==
    { [fn |-> "fft", phase |-> "called", fft_window_size |-> n, slices |-> x,
       num_windows |-> Len(x) \div n, transformed_buffer_index |-> o, minDB |-> f,
       min_trigger_bucket |-> lo, max_trigger_bucket |-> hi,
       trigger_threshold |-> t] :
          n \in FftSizes, x \in UNION { FftSlices(m) : m \in FftSizes },
          o \in {0, 2}, f \in FloorDbs, lo \in 0 .. 1, hi \in 0 .. 1,
          t \in Thresholds }

(***************************************************************************)
(* pipeline.cpp, unwrapSlices.  Arrays are indexed from 1 here and from 0  *)
(* in the code; a window coefficient is a Num in halves, the product with  *)
(* a 16 bit sample is exact.                                               *)
(***************************************************************************)
\* line 107
WindowFits_strict(end_index, raw_data_entries) == end_index < raw_data_entries

WindowFits(end_index, raw_data_entries) == end_index <= raw_data_entries

\* lines 108-112: one window appended at unwrapped_index
UnwrapWindow(rawData, start_index, windowData, fft_window_size) ==
    [ window_index \in 1 .. fft_window_size |->
        Num(rawData[start_index + window_index] * windowData[window_index].q) ]

\* lines 103-116: the loop over the windows from window i on
RECURSIVE UnwrapLoop(_, _, _, _)
UnwrapLoop(i, start_index, sliceBufferData, a) ==
    IF i >= a.window_count THEN sliceBufferData
    ELSE UnwrapLoop(i + 1, start_index + a.fft_stride,
                    IF WindowFits(start_index + a.fft_window_size, a.raw_data_entries)
                    THEN sliceBufferData \o UnwrapWindow(a.rawData, start_index,
                                                         a.windowData, a.fft_window_size)
                    ELSE sliceBufferData,
                    a)

\* lines 98-101, 119-132: rc is -1 and nothing is written when the raw or the
\* slice array was not obtained
UnwrapSlices(a) ==
    IF ~a.raw_obtained \/ ~a.slice_obtained
    THEN [rc |-> 0 - 1, sliceBufferData |-> << >>]
    ELSE [rc |-> 0, sliceBufferData |-> UnwrapLoop(0, a.start_index, << >>, a)]

RawArrays ==
    UNION { { [j \in 1 .. n |-> 100 * j - 250], [j \in 1 .. n |-> 7 - 3 * j] } :
            n \in 0 .. MaxRaw }

WindowArrays == UNION { [1 .. n -> {Num(1), Num(3)}] : n \in 1 .. MaxWindowSize }

UnwrapCalls ==
    { [fn |-> "unwrap", phase |-> "called", rawData |-> r, raw_data_entries |-> Len(r),
       start_index |-> s, window_count |-> c, fft_stride |-> d, windowData |-> w,
       fft_window_size |-> Len(w), raw_obtained |-> g[1], slice_obtained |-> g[2]] :
          r \in RawArrays, s \in 0 .. 2, c \in 0 .. (MaxWindows + 1), d \in 0 .. 2,
          w \in WindowArrays,
          g \in { << TRUE, TRUE >>, << FALSE, TRUE >>, << TRUE, FALSE >> } }

(***************************************************************************)
(* pipeline.cpp, findBnCRange.  The result is NoResult (nullptr) or the    *)
(* pair written to the new array.  FloatLimit(1) is                        *)
(* numeric_limits<float>::max(), FloatLimit(-1) is lowest(); both are      *)
(* finite and beyond every dB value.                                       *)
(***************************************************************************)
FloatLimit(sign) == [k |-> "limit", q |-> sign]

NoResult == [k |-> "null"]

\* a < b for two floats that are numbers or limits
FLess(a, b) ==
    IF a.k = "num" /\ b.k = "num" THEN a.q < b.q
    ELSE IF a.k = "limit" THEN a.q < 0 /\ a # b
    ELSE b.q > 0

\* line 487
Degenerate(x_min, x_max, y_min, y_max) == x_min = x_max \/ y_min = y_max

\* lines 506-517: one cell
RangeCell(acc, dB) ==
    IF acc.first THEN [minDB |-> dB, maxDB |-> dB, first |-> FALSE]
    ELSE [minDB |-> IF FLess(dB, acc.minDB) THEN dB ELSE acc.minDB,
          maxDB |-> IF FLess(acc.maxDB, dB) THEN dB ELSE acc.maxDB,
          first |-> FALSE]

\* line 505: the inner loop from frequencyIndex to y2
RECURSIVE RangeFrequencyLoop(_, _, _, _, _)
RangeFrequencyLoop(frequencyIndex, y2, offset, data, acc) ==
    IF frequencyIndex > y2 THEN acc
    ELSE RangeFrequencyLoop(frequencyIndex + 1, y2, offset, data,
                            RangeCell(acc, data[offset + frequencyIndex + 1]))

\* lines 500-518: the outer loop from timeIndex to x_max
RECURSIVE RangeTimeLoop(_, _, _)
RangeTimeLoop(timeIndex, a, acc) ==
    IF timeIndex > a.x_max THEN acc
    ELSE RangeTimeLoop(timeIndex + 1, a,
                       RangeFrequencyLoop(a.frequency_buckets - a.y_max - 1,
                                          a.frequency_buckets - a.y_min - 1,
                                          timeIndex * a.frequency_buckets, a.data, acc))

\* lines 480-532
FindBnCRange(a) ==
    IF Degenerate(a.x_min, a.x_max, a.y_min, a.y_max) THEN NoResult
    ELSE IF ~a.data_obtained THEN NoResult
    ELSE LET acc == RangeTimeLoop(a.x_min, a,
                                  [minDB |-> FloatLimit(1), maxDB |-> FloatLimit(0 - 1),
                                   first |-> TRUE])
         IN  IF ~a.result_obtained THEN NoResult
             ELSE [k |-> "pair", minDB |-> acc.minDB, maxDB |-> acc.maxDB]

\* transformed data of t time buckets by f frequency buckets, in halves of a dB
TransformedData(t, f) ==
    { [n \in 1 .. (t * f) |-> Num(((7 * n) % 5) * 3 - 100)],
      [n \in 1 .. (t * f) |-> Num(0 - 40 - n)],
      [n \in 1 .. (t * f) |-> Num(0 - 200)] }

RangeCalls ==
    { [fn |-> "range", phase |-> "called", x_min |-> x[1], x_max |-> x[2],
       y_min |-> y[1], y_max |-> y[2], frequency_buckets |-> MaxFrequencyBuckets,
       data |-> d, data_obtained |-> g[1], result_obtained |-> g[2]] :
          x \in (0 .. (MaxTimeBuckets - 1)) \X (0 .. (MaxTimeBuckets - 1)),
          y \in (0 .. (MaxFrequencyBuckets - 1)) \X (0 .. (MaxFrequencyBuckets - 1)),
          d \in TransformedData(MaxTimeBuckets, MaxFrequencyBuckets),
          g \in { << TRUE, TRUE >>, << FALSE, TRUE >>, << TRUE, FALSE >> } }

(***************************************************************************)
(* nativeusb.cpp lines 361-370: the padding left by short packets is       *)
(* removed in place.  pData is the slot buffer as bytes, indexed from 1    *)
(* here; frame_desc[frame + 1] is [length, actual_length] of a packet.     *)
(***************************************************************************)
\* memmove: n bytes from offset src to offset dst, as if through a copy
Memmove(pData, dst, src, n) ==
    [ b \in DOMAIN pData |->
        IF (b - 1) >= dst /\ (b - 1) < dst + n THEN pData[src + (b - 1 - dst) + 1]
        ELSE pData[b] ]

\* line 369
NextSourceOffset_actual(source_byte_offset, desc) ==
    source_byte_offset + desc.actual_length

NextSourceOffset(source_byte_offset, desc) == source_byte_offset + desc.length

\* lines 363-370: the loop from packet frame on
RECURSIVE CompactLoop(_, _, _, _, _)
CompactLoop(frame, dst_byte_offset, source_byte_offset, pData, frame_desc) ==
    IF frame >= PACKETS_PER_URB THEN pData
    ELSE LET desc == frame_desc[frame + 1]
         IN  CompactLoop(frame + 1,
                         dst_byte_offset + desc.actual_length,
                         NextSourceOffset(source_byte_offset, desc),
                         IF frame > 0 /\ desc.actual_length > 0
                         THEN Memmove(pData, dst_byte_offset, source_byte_offset,
                                      desc.actual_length)
                         ELSE pData,
                         frame_desc)

\* a slot buffer whose bytes are all different
NumberedBytes(n) == [b \in 1 .. n |-> 100 + b]

CompactCalls ==
    { [fn |-> "compact", phase |-> "called",
       pData |-> NumberedBytes(PACKETS_PER_URB * len),
       frame_desc |-> [f \in 1 .. PACKETS_PER_URB |->
                          [length |-> len, actual_length |-> actual[f]]]] :
          len \in 1 .. MaxPacketBytes,
          actual \in [1 .. PACKETS_PER_URB -> 0 .. MaxPacketBytes] }

(***************************************************************************)
(* nativeusb.cpp lines 342-380: a reaped slot buffer is checked and        *)
(* processed.  pData is the memory from the start of the slot buffer, as   *)
(* 16 bit samples indexed from 0: the data points, the canary at           *)
(* MAX_DATA_POINTS_PER_URB, and what lies behind the slot.                 *)
(***************************************************************************)
MAX_DATA_POINTS_PER_URB == MaxFrameSamples * MAX_CHANNELS * PACKETS_PER_URB

\* the bytes of little-endian 16 bit samples, and back
ByteOfSample(pData, b) ==
    LET u == pData[(b - 1) \div 2] % 65536
    IN  IF (b - 1) % 2 = 0 THEN u % 256 ELSE u \div 256

BytesOf(pData, points) == [b \in 1 .. (2 * points) |-> ByteOfSample(pData, b)]

SamplesOf(bytes, points) ==
    [j \in 0 .. (points - 1) |-> ToShort(bytes[2 * j + 1] + 256 * bytes[2 * j + 2])]

\* line 352: the assertion on the canary
CanaryIntact_unchecked(pData) == TRUE

CanaryIntact(pData) == pData[MAX_DATA_POINTS_PER_URB] = CANARY_DATA_VALUE

\* lines 342-380 for a transfer that was reaped with ret = 0: the assertion
\* ends the process when it fails; otherwise, unless paused, the packets are
\* compacted and a stereo transfer is merged
ProcessSlot(a) ==
    IF ~CanaryIntact(a.pData) THEN [aborted |-> TRUE, pData |-> a.pData]
    ELSE IF ~ForwardingEnabled(a.paused) THEN [aborted |-> FALSE, pData |-> a.pData]
    ELSE LET points    == 2 * MAX_DATA_POINTS_PER_URB
             compacted == SamplesOf(CompactLoop(0, 0, 0, BytesOf(a.pData, points),
                                                a.frame_desc), points)
         IN  [aborted |-> FALSE,
              pData |-> IF a.num_channels = 2
                        THEN MergeStereo(compacted, a.actual_length \div 2).pData
                        ELSE compacted]

\* memory whose samples are all different, with the canary as initialiseRequests
\* wrote it or as a device that overran the buffer left it
SlotMemory(canary) ==
    [j \in 0 .. (2 * MAX_DATA_POINTS_PER_URB - 1) |->
        IF j = MAX_DATA_POINTS_PER_URB THEN canary ELSE 1000 * (j % 2) - 300 - j]

PacketBytes == { 2 * k : k \in 1 .. (MaxFrameSamples * MAX_CHANNELS) }

SlotCalls ==
    { [fn |-> "slot", phase |-> "called", pData |-> SlotMemory(c),
       frame_desc |-> [f \in 1 .. PACKETS_PER_URB |->
                          [length |-> len, actual_length |-> actual[f]]],
       actual_length |-> SumTo(actual, PACKETS_PER_URB),
       num_channels |-> n, paused |-> p] :
          c \in {CANARY_DATA_VALUE, 0}, len \in PacketBytes,
          actual \in [1 .. PACKETS_PER_URB -> {0} \cup PacketBytes],
          n \in 1 .. MAX_CHANNELS, p \in BOOLEAN }

\* Calls of write_audio_output right after startAudio (filter at rest, phase
\* indices 0) in a session of the given sample rate: the run of mono
\* samples, the tones and the boost shift.
WriteRates == {4000, 72000, 120000}

WriteSamples == {INT16_MIN, 100, INT16_MAX}

WriteTones == {0, 1}

WriteBoosts == {0, 2}

WriteRuns == UNION { [1 .. n -> WriteSamples] : n \in 0 .. MaxWriteLen }

WriteCalls ==
    { [fn |-> "write", phase |-> "called", pBuffer |-> b, sample_rate |-> r,
       heterodyne1_kHz |-> h1, heterodyne2_kHz |-> h2, boost_shift |-> s] :
          b \in WriteRuns, r \in WriteRates, h1 \in WriteTones, h2 \in WriteTones,
          s \in WriteBoosts }

\* The anti-alias filter of write_audio_output on a constant mixed value,
\* from the rest state downsampling_filter_reset leaves.
FilterInputs == {0 - 40, 0 - 1, 0, 1, 3, 40}

FilterRates == {4000, 384000}

FilterCalls ==
    { [fn |-> "filter", phase |-> "called", mixed |-> x, sample_rate |-> r,
       previous |-> << 0, 0, 0, 0 >>, filtered |-> 0, samples |-> 0] :
          x \in FilterInputs, r \in FilterRates }

PureInit ==
    /\ CaptureInit
    /\ copy = NoCopy
    /\ call \in DecimationCalls \cup MergeCalls \cup WriteCalls \cup ColourCalls
                  \cup UnwrapCalls
                  \cup RangeCalls \cup FilterCalls
                  \cup { c \in SlotCalls :
                            \A f \in 1 .. PACKETS_PER_URB :
                                c.frame_desc[f].actual_length <= c.frame_desc[f].length }
                  \cup { c \in CompactCalls :
                            \A f \in 1 .. PACKETS_PER_URB :
                                c.frame_desc[f].actual_length <= c.frame_desc[f].length }
                  \cup { c \in FftCalls : Len(c.slices) = c.num_windows * c.fft_window_size
                                             /\ c.num_windows <= MaxWindows }

SessionReturn ==
    /\ call.fn = "session"
    /\ call.phase = "called"
    /\ call' = [call EXCEPT !.phase = "returned"] @@
               [s_nominal_samples_per_frame |-> NominalSamplesPerFrame(call.sample_rate),
                s_decimation_factor |-> DecimationFactor(call.sample_rate),
                s_audio_out_rate |-> AudioOutRate(call.sample_rate)]
    /\ UNCHANGED << captureVars, copy >>

MergeReturn ==
    /\ call.fn = "merge"
    /\ call.phase = "called"
    /\ call' = [call EXCEPT !.phase = "returned"] @@
               [merged |-> MergeStereo(call.pData, call.actual_samples_read),
                reads |-> MergeReads(call.actual_samples_read)]
    /\ UNCHANGED << captureVars, copy >>

WriteReturn ==
    /\ call.fn = "write"
    /\ call.phase = "called"
    /\ call' = [call EXCEPT !.phase = "returned"] @@
               [decimation_factor |-> DecimationFactor(call.sample_rate),
                result |->
                    WriteLoop(WriteStart(<< 0, 0, 0, 0 >>, 0, 0), call.pBuffer,
                              [reference_len |->
                                   ReferenceLenFor(NominalSamplesPerFrame(call.sample_rate)),
                               heterodyne1_kHz |-> call.heterodyne1_kHz,
                               heterodyne2_kHz |-> call.heterodyne2_kHz,
                               boost_shift |-> call.boost_shift,
                               coefficient |-> calculate_iir_coefficient(call.sample_rate),
                               decimation_factor |-> DecimationFactor(call.sample_rate)])]
    /\ UNCHANGED << captureVars, copy >>

ColourReturn ==
    /\ call.fn = "colour"
    /\ call.phase = "called"
    /\ call' = [call EXCEPT !.phase = "returned"] @@
               [index |-> ColourIndex(call.value, call.offset, call.multiplier,
                                      call.size, call.undefined_result)]
    /\ UNCHANGED << captureVars, copy >>

FftReturn ==
    /\ call.fn = "fft"
    /\ call.phase = "called"
    /\ call' = [call EXCEPT !.phase = "returned"] @@ DoFft(call)
    /\ UNCHANGED << captureVars, copy >>

UnwrapReturn ==
    /\ call.fn = "unwrap"
    /\ call.phase = "called"
    /\ call' = [call EXCEPT !.phase = "returned"] @@ UnwrapSlices(call)
    /\ UNCHANGED << captureVars, copy >>

RangeReturn ==
    /\ call.fn = "range"
    /\ call.phase = "called"
    /\ call' = [call EXCEPT !.phase = "returned"] @@ [result |-> FindBnCRange(call)]
    /\ UNCHANGED << captureVars, copy >>

CompactReturn ==
    /\ call.fn = "compact"
    /\ call.phase = "called"
    /\ call' = [call EXCEPT !.phase = "returned"] @@
               [compacted |-> CompactLoop(0, 0, 0, call.pData, call.frame_desc)]
    /\ UNCHANGED << captureVars, copy >>

SlotReturn ==
    /\ call.fn = "slot"
    /\ call.phase = "called"
    /\ call' = [call EXCEPT !.phase = "returned"] @@ [processed |-> ProcessSlot(call)]
    /\ UNCHANGED << captureVars, copy >>

\* lines 763-771 for one more sample of the same mixed value; the call is
\* "settled" once a sample leaves every stage as it was, and every later
\* sample then gives the same output
FilterSample ==
    /\ call.fn = "filter"
    /\ call.phase \in {"called", "running"}
    /\ call.samples < MaxFilterSteps
    /\ LET f == FilterStages(calculate_iir_coefficient(call.sample_rate), call.mixed,
                             call.previous, 1)
       IN  call' = [call EXCEPT !.previous = f.previous,
                                !.filtered = f.filtered,
                                !.samples = @ + 1,
                                !.phase = IF f.previous = call.previous
                                          THEN "settled" ELSE "running"]
    /\ UNCHANGED << captureVars, copy >>

PureNext ==
    \/ SessionReturn
    \/ MergeReturn
    \/ WriteReturn
    \/ ColourReturn
    \/ FftReturn
    \/ UnwrapReturn
    \/ RangeReturn
    \/ CompactReturn
    \/ SlotReturn
    \/ FilterSample

PureSpec == PureInit /\ [][PureNext]_vars

(***************************************************************************)
(* Properties of the session parameters and of the stereo merge.           *)
(***************************************************************************)
\* C11: for every sample rate R the decimation factor is max(1, R / 48000
\* rounded to the nearest integer) and the output rate is R divided by the
\* factor, integer division; R = 384000 gives factor 8 and rate 48000.
C11_DecimationFactor ==
    (call.fn = "session" /\ call.phase = "returned")
    => LET R == call.sample_rate
           f == call.s_decimation_factor
           T == TARGET_AUDIO_OUT_RATE
       IN  /\ f >= 1
           /\ (f = 1) => (2 * R < 3 * T)
           /\ (f > 1) => ((2 * f - 1) * T <= 2 * R /\ 2 * R <= (2 * f + 1) * T)
           /\ f * call.s_audio_out_rate <= R
           /\ R < f * (call.s_audio_out_rate + 1)
           /\ (R = 384000) => (f = 8 /\ call.s_audio_out_rate = 48000)

\* C11 witness: the session setup has run for 384000 Hz.
C11_Witness ==
    /\ call.fn = "session"
    /\ call.phase = "returned"
    /\ call.sample_rate = 384000
    /\ call.s_decimation_factor = 8

\* C12 as stated: n pairs merge to n samples, sample i being the mean of
\* pair i rounded toward zero.
C12_MeanTowardZero ==
    (call.fn = "merge" /\ call.phase = "returned")
    => LET n == call.actual_samples_read \div 2
       IN  /\ call.merged.actual_samples_read = n
           /\ \A i \in 0 .. (n - 1) :
                  call.merged.pData[i] = CDiv(call.pData[2 * i] + call.pData[2 * i + 1], 2)

\* C12 amended: n pairs merge to n samples, sample i being the mean of pair
\* i rounded toward minus infinity: twice the sample is the sum of the pair
\* or one less.
C12_MeanFloor ==
    (call.fn = "merge" /\ call.phase = "returned")
    => LET n == call.actual_samples_read \div 2
       IN  /\ call.merged.actual_samples_read = n
           /\ \A i \in 0 .. (n - 1) :
                  LET sum == call.pData[2 * i] + call.pData[2 * i + 1]
                  IN  /\ 2 * call.merged.pData[i] <= sum
                      /\ sum <= 2 * call.merged.pData[i] + 1
           /\ \A i \in 0 .. (n - 1) :
                  (call.pData[2 * i] = 100 /\ call.pData[2 * i + 1] = 300)
                      => call.merged.pData[i] = 200

\* C12 witness: a merged transfer whose last pair has a negative odd sum.
C12_Witness ==
    /\ call.fn = "merge"
    /\ call.phase = "returned"
    /\ call.actual_samples_read = 2 * MaxPairs
    /\ call.pData[2 * MaxPairs - 2] + call.pData[2 * MaxPairs - 1] = 0 - 32769
    /\ call.merged.pData[MaxPairs - 1] = 0 - 16385

(***************************************************************************)
(* Properties of the capture loop.                                         *)
(***************************************************************************)
InCaptureLoop == wpc \in {"loop", "reap", "relock", "reaped", "recycle"}

\* A URB was reaped and processed in the current iteration, and the worker
\* still holds the mutex it took after the wait.
Processed == wpc \in {"recycle", "loop", "exit"} /\ urbReaped # NoUrb

InFlight == {u \in Slots : slot[u] = "inflight"}

DeviceRemovedReturn ==
    \/ retpath \in {"reap_device_removed", "submit_device_removed"}
    \/ retpath = "initial_submit_failed" /\ status = ENODEV

\* C1: once the cancel flag is set while the capture loop runs, no step of
\* the loop submits a slot: every idle slot stays idle and the outstanding
\* count does not grow.
C1_NoSubmitAfterCancel ==
    [][ (InCaptureLoop /\ s_cancel_pending)
        => /\ balls_in_the_air' <= balls_in_the_air
           /\ \A u \in Slots : slot[u] = "idle" => slot'[u] = "idle" ]_vars

\* C1 witness: cancel is pending, a transfer was reaped and left idle, and
\* other transfers are still draining.
C1_Witness ==
    /\ wpc = "loop"
    /\ s_cancel_pending
    /\ urbReaped # NoUrb
    /\ ret = 0
    /\ slot[urbReaped] = "idle"
    /\ balls_in_the_air > 0
    /\ InFlight # {}

\* C2: if cancel is requested while the capture loop runs and in-flight
\* transfers keep completing, NativeUSB_stream eventually returns.  Runs in
\* which the UI thread has left s_mutex locked (the rejection path of
\* startAudio) are set aside, so that a violation shows the loop itself
\* failing to terminate.
C2_CancelTerminates ==
    (InCaptureLoop /\ s_cancel_pending) ~> (wpc = "returned" \/ mutex.owner = "ui")

\* C3: whenever NativeUSB_stream has returned for a reason other than a
\* removed device, no slot is still in flight.  (The claim also says that
\* cancellation was requested; that part fails on the same return and is
\* left out so that the violation shows transfers left in flight.)
C3_ReturnsDrained ==
    (wpc = "returned" /\ ~DeviceRemovedReturn) => InFlight = {}

\* C4: a return through the device-removed break of the completion wait
\* has a non-zero status, and a return through cancel and drain has
\* status 0.
C4_ReturnStatus ==
    wpc = "returned"
        => /\ retpath = "reap_device_removed" => status # 0
           /\ retpath = "drained" => status = 0

\* C5: a transfer processed while paused makes no callback and no audio
\* write and is resubmitted unless cancel is pending; a transfer processed
\* while not paused is notified and forwarded.
C5_PauseSuppressesForwarding ==
    LET n == MergedSamples(actual_length, s_num_channels)
    IN  /\ (Processed /\ s_paused) => (cb = << >> /\ aw = << >>)
        /\ (Processed /\ s_paused /\ wpc = "loop" /\ ~s_cancel_pending /\ ret = 0)
               => slot[urbReaped] = "inflight"
        /\ (Processed /\ ~s_paused /\ bridgeOk /\ n > 0)
               => (cb = << n >> /\ aw = IF s_android_stream THEN << n >> ELSE << >>)

\* C5 witness: paused, a transfer with samples was reaped while the bridge
\* and an audio session were available, and it was resubmitted.
C5_Witness ==
    /\ wpc = "loop"
    /\ urbReaped # NoUrb
    /\ s_paused
    /\ ~s_cancel_pending
    /\ ret = 0
    /\ slot[urbReaped] = "inflight"
    /\ bridgeOk
    /\ s_android_stream
    /\ MergedSamples(actual_length, s_num_channels) > 0
    /\ cb = << >>

\* C6: at most one callback per reaped transfer, carrying its merged
\* sample count; no callback and no audio write without a reaped
\* transfer or when the merged count is zero.
C6_NotifyOncePerTransfer ==
    LET n == MergedSamples(actual_length, s_num_channels)
    IN  /\ Len(cb) <= 1
        /\ Len(aw) <= 1
        /\ (cb # << >> \/ aw # << >>)
               => (urbReaped # NoUrb /\ wpc \in {"recycle", "loop", "exit", "returned"})
        /\ cb # << >> => cb = << n >>
        /\ aw # << >> => aw = cb
        /\ n = 0 => (cb = << >> /\ aw = << >>)

\* C6 witness: a stereo transfer holding a single sample was processed
\* with forwarding enabled, and nothing was notified.
C6_Witness ==
    /\ Processed
    /\ ~s_paused
    /\ bridgeOk
    /\ s_android_stream
    /\ s_num_channels = 2
    /\ actual_length > 0
    /\ MergedSamples(actual_length, s_num_channels) = 0
    /\ cb = << >>

\* C7: at every return of NativeUSB_stream no audio output session is
\* active and no recording descriptor is held.
C7_ReturnStopsAudioAndRecording ==
    [][ (wpc # "returned" /\ wpc' = "returned")
        => (~s_android_stream' /\ s_fd_file' = -1) ]_vars

\* C8: during the completion wait the worker does not own the mutex and
\* every control entry point can run; at every other point of the call the
\* worker owns it.
C8_MutexReleasedAroundWait ==
    /\ wpc = "reap" => /\ mutex.owner # "worker"
                       /\ ENABLED CancelStream
                       /\ ENABLED PauseStream
                       /\ ENABLED ResumeStream
                       /\ ENABLED StartRecordingFd(3)
                       /\ ENABLED StopRecording
    /\ wpc \in {"submit", "loop", "reaped", "recycle", "exit"}
           => (mutex.owner = "worker" /\ mutex.count = 1)

\* C8 witness: the worker waits with transfers in flight after control
\* calls were served.
C8_Witness ==
    /\ wpc = "reap"
    /\ mutex = FreeMutex
    /\ InFlight # {}
    /\ s_cancel_pending
    /\ s_fd_file >= 0

(***************************************************************************)
(* Properties of the export copy.                                          *)
(***************************************************************************)
\* C9: for 0 <= offset < cap and k <= cap the copy returns k, puts
\* source[i] at (offset + i) mod cap and changes nothing else.
C9_RingCopyWraps ==
    (copy.phase = "returned" /\ copy.source_samples <= copy.target_buffer_size)
    => LET k   == copy.source_samples
           cap == copy.target_buffer_size
           off == copy.target_buffer_offset
       IN  /\ copy.rc = k
           /\ \A i \in 0 .. (k - 1) :
                  copy.target_buffer[(off + i) % cap] = SourceData[i]
           /\ \A j \in 0 .. (cap - 1) :
                  (\A i \in 0 .. (k - 1) : (off + i) % cap # j)
                      => copy.target_buffer[j] = FreshRing(cap)[j]

\* C9 witness: a copy that wrapped, with part of the ring left untouched.
C9_Witness ==
    /\ copy.phase = "returned"
    /\ copy.source_samples < copy.target_buffer_size
    /\ copy.target_buffer_offset + copy.source_samples > copy.target_buffer_size
    /\ copy.target_buffer[0] = SourceData[copy.target_buffer_size - copy.target_buffer_offset]

\* C10: asked for k > cap samples, the copy returns cap.
C10_TruncatedToCapacity ==
    (copy.phase = "returned" /\ copy.source_samples > copy.target_buffer_size)
        => copy.rc = copy.target_buffer_size

(***************************************************************************)
(* Properties of the session setup.                                        *)
(***************************************************************************)
\* C13: a capture started with a channel count outside 1..2 or a
\* samples-per-millisecond count outside 1..385 is rejected: its parameters
\* are not written and no transfer is submitted, so whenever the session
\* parameters are out of range no slot is in flight.
C13_InvalidStartRejected ==
    ~ValidStart(s_num_channels, s_nominal_samples_per_frame) => InFlight = {}

\* C17: whenever the worker has forwarded samples to the audio path, the
\* stream in use was opened at the current session's output rate and the
\* reference table length is the session's samples-per-millisecond count.
C17_AudioMatchesSession ==
    aw # << >>
        => /\ stream_sample_rate = s_audio_out_rate
           /\ s_reference_len = s_nominal_samples_per_frame

(***************************************************************************)
(* Properties of the recording descriptor.                                 *)
(***************************************************************************)
\* C18: the descriptors the module holds are exactly the one in s_fd_file,
\* so at most one is held; no descriptor is closed twice; a descriptor
\* leaves the module only by the close of stopRecording, of a restart in
\* startRecordingFd, or of the exit of the capture loop; and
\* startRecordingFd with a negative descriptor returns false and leaves
\* the recording as it is.
C18_RecordingDescriptor ==
    /\ [](/\ open_fds = (IF s_fd_file >= 0 THEN {s_fd_file} ELSE {})
          /\ Cardinality(open_fds) <= 1
          /\ ~bad_close)
    /\ [][ /\ (\E fd \in open_fds : fd \notin open_fds')
               => (StopRecording \/ StreamExit
                     \/ \E fd \in RecFds : fd >= 0 /\ StartRecordingFd(fd))
           /\ \A fd \in RecFds :
                  (fd < 0 /\ StartRecordingFd(fd))
                      => (~StartRecordingFdResult(fd)
                            /\ UNCHANGED << s_fd_file, open_fds >>) ]_vars

\* C18 witness: the module holds one accepted descriptor, the second of the
\* two the host uses, while the capture loop waits.
C18_Witness ==
    /\ s_fd_file = 4
    /\ open_fds = {4}
    /\ wpc = "reap"

(***************************************************************************)
(* Properties of the audio path.                                           *)
(***************************************************************************)
\* C14: startAudio called with a tone above the reference table length
\* (samples per millisecond, at most 512) returns false, leaves no audio
\* stream set, and leaves the tones, the boost shift and the phase indices
\* as they were.
C14_RejectedStartAudio ==
    [][ \A h1 \in AudioTones, h2 \in AudioTones2 :
          LET n == s_nominal_samples_per_frame
              len == IF n > 512 THEN 512 ELSE n
          IN  ((h1 > len \/ h2 > len) /\ StartAudioCall(h1, h2))
                  => /\ \A o \in AudioOutcomes : ~StartAudioResult(h1, h2, n, o)
                     /\ ~s_android_stream'
                     /\ UNCHANGED << s_heterodyne1_kHz, s_heterodyne2_kHz,
                                     s_audio_boost_shift, s_reference1_index,
                                     s_reference2_index >> ]_vars

\* C14 witness: a call of startAudio has left through the rejection (the
\* only path that keeps s_mutex) while tones and a phase index set by an
\* earlier call are in place.
C14_Witness ==
    /\ mutex.owner = "ui"
    /\ ~s_android_stream
    /\ s_heterodyne1_kHz = 3
    /\ s_audio_boost_shift = 2
    /\ s_reference1_index = 2

\* C15: while an audio stream is set and a reference table is built, both
\* phase indices are inside the table.
C15_PhaseInRange ==
    (s_android_stream /\ s_reference_len > 0)
        => /\ s_reference1_index >= 0
           /\ s_reference1_index < s_reference_len
           /\ s_reference2_index >= 0
           /\ s_reference2_index < s_reference_len

\* C16: a run of n samples at decimation factor N emits n div N samples,
\* the k-th of them at the (k * N)-th input sample, each within
\* -32768 .. 32767, and leaves the counter at n mod N.
C16_DecimatedOutput ==
    (call.fn = "write" /\ call.phase = "returned")
    => LET n == Len(call.pBuffer)
           N == call.decimation_factor
           r == call.result
       IN  /\ Len(r.out) = n \div N
           /\ Len(r.at) = n \div N
           /\ \A k \in 1 .. Len(r.out) :
                  /\ r.at[k] = k * N - 1
                  /\ r.out[k] >= 0 - 32768
                  /\ r.out[k] <= 32767
           /\ r.decimation_counter = n % N

\* C16 witness: a run of six samples was decimated at factor 2 into three
\* samples, the third of them saturated at 32767.
C16_Witness ==
    /\ call.fn = "write"
    /\ call.phase = "returned"
    /\ call.decimation_factor = 2
    /\ Len(call.pBuffer) = 6
    /\ Len(call.result.out) = 3
    /\ call.result.out[3] = 32767

(***************************************************************************)
(* Properties of the colour map.                                           *)
(***************************************************************************)
\* C19: once a colour map is loaded, every later nativeInitialize leaves
\* the table contents, its size and its storage as they are, and a rendering
\* call in progress keeps the table it found, never freed.  (The claim also
\* says the later call returns success; that part fails only when JNI cannot
\* hand out the array, and is left out so that the violation shows the table
\* replaced.)
C19_LoadedOnce ==
    /\ [][ (s_colourMapData.alloc # 0 /\ map_loads' = map_loads + 1)
             => /\ UNCHANGED << s_colourMapData, s_colourMapDataSize >>
                /\ freed' = freed ]_vars
    /\ [](render.phase = "run"
             => (render.alloc = s_colourMapData.alloc /\ render.alloc \notin freed))

\* C20: for a table of size S >= 1 the index of the colour lookup is within
\* 0 .. S-1 for every value, offset and multiplier, and when the scaled
\* value is finite the index is the integer t between it and zero
\* (|t| <= |scaled| < |t| + 1), limited to 0 .. S-1.
C20_ColourIndexInRange ==
    (call.fn = "colour" /\ call.phase = "returned")
    => /\ call.index >= 0
       /\ call.index <= call.size - 1
       /\ call.value.k = "num"
            => LET p == (call.value.q - call.offset.q) * call.multiplier.q
                   t == CHOOSE t \in (0 - Abs(p)) .. Abs(p) :
                            /\ 4 * Abs(t) <= Abs(p)
                            /\ Abs(p) < 4 * (Abs(t) + 1)
                            /\ (t # 0 => Sign(t) = Sign(p))
               IN  call.index = IF t < 0 THEN 0
                                ELSE IF t > call.size - 1 THEN call.size - 1
                                ELSE t

\* C20 witness: a finite scaled value between -1 and 0 was truncated to index
\* 0 of a table of more than one entry.
C20_Witness ==
    /\ call.fn = "colour"
    /\ call.phase = "returned"
    /\ call.size > 1
    /\ call.value.k = "num"
    /\ (call.value.q - call.offset.q) * call.multiplier.q = 0 - 3
    /\ call.index = 0

\* C21: doFft on slices that are all zeros writes the floor dB into every
\* bucket of every window and reports triggered = false, for every trigger
\* bucket range and every threshold.
C21_SilenceNeverTriggers ==
    (/\ call.fn = "fft"
     /\ call.phase = "returned"
     /\ \A n \in 1 .. Len(call.slices) : call.slices[n] = 0)
    => /\ \A t \in DOMAIN call.transformed : call.transformed[t] = call.minDB
       /\ ~call.triggered

\* C22: with the arrays obtained, unwrapSlices returns success and writes, for
\* each window i of 0 .. window_count-1 whose range start + i*stride ..
\* start + i*stride + window_size - 1 lies within the raw data, the products
\* raw[start + i*stride + j] * window[j], packed in window order; a window
\* whose range exceeds the raw data writes nothing.
C22_ExtractWindows ==
    (call.fn = "unwrap" /\ call.phase = "returned"
        /\ call.raw_obtained /\ call.slice_obtained)
    => LET first(i) == call.start_index + i * call.fft_stride
           size == call.fft_window_size
           within == { i \in 0 .. (call.window_count - 1) :
                           first(i) + size <= call.raw_data_entries }
           before(i) == Cardinality({ k \in within : k < i })
       IN  /\ call.rc = 0
           /\ Len(call.sliceBufferData) = Cardinality(within) * size
           /\ \A i \in within, j \in 0 .. (size - 1) :
                 call.sliceBufferData[before(i) * size + j + 1] =
                     [k |-> "num",
                      q |-> call.rawData[first(i) + j + 1] * call.windowData[j + 1].q]

\* C22 witness: three windows were asked for, two lie within the raw data and
\* were written, the last reaches past the end and was skipped.
C22_Witness ==
    /\ call.fn = "unwrap"
    /\ call.phase = "returned"
    /\ call.rc = 0
    /\ call.window_count = 3
    /\ call.fft_window_size = 2
    /\ call.fft_stride = 1
    /\ call.start_index + 3 = call.raw_data_entries
    /\ Len(call.sliceBufferData) = 4

\* C23: findBnCRange returns no result when the region has equal time bounds
\* or equal frequency bounds; otherwise (the arrays being obtained) it returns
\* a pair (min, max) with min <= max, which are the least and the greatest dB
\* value over the cells of the region, frequency indices reflected.
C23_RangeResult ==
    (call.fn = "range" /\ call.phase = "returned")
    => IF call.x_min = call.x_max \/ call.y_min = call.y_max
       THEN call.result.k = "null"
       ELSE (call.data_obtained /\ call.result_obtained)
            => LET cells == { call.data[x * call.frequency_buckets
                                          + (call.frequency_buckets - y - 1) + 1] :
                                 x \in call.x_min .. call.x_max,
                                 y \in call.y_min .. call.y_max }
               IN  /\ call.result.k = "pair"
                   /\ ~FLess(call.result.maxDB, call.result.minDB)
                   /\ cells # {}
                        => /\ call.result.minDB \in cells
                           /\ call.result.maxDB \in cells
                           /\ \A c \in cells : /\ call.result.minDB.q <= c.q
                                               /\ c.q <= call.result.maxDB.q

\* C24: between the steps of the capture loop (after a submit that succeeded,
\* at the loop test, before a resubmit) balls_in_the_air equals the number of
\* transfers submitted and not yet reaped, and is within 0 .. pool size.
C24_CounterMatchesInFlight ==
    (\/ wpc \in {"loop", "recycle"}
     \/ (wpc = "submit" /\ ret = 0))
    => /\ balls_in_the_air = Cardinality(InFlight)
       /\ balls_in_the_air \in 0 .. URBS_TO_JUGGLE

\* C25: every public operation releases s_mutex as often as it acquired it on
\* every return path: once a call of the UI thread has returned the UI thread
\* does not hold the mutex, and once NativeUSB_stream has returned (or before
\* it is called) the worker does not hold it.
C25_MutexBalanced ==
    /\ mutex.owner # "ui"
    /\ (wpc \in {"idle", "returned"}) => mutex.owner # "worker"

\* C26: a completion wait that failed with an error other than ENODEV (EINTR
\* included) counts as no completion: when the worker leaves the processing
\* step the outstanding count and the slots are unchanged, nothing was
\* notified or forwarded, and the worker is back at the wait or at the loop
\* test, never at the exit; the loop test ends the loop only when cancel is
\* pending and nothing is outstanding.
C26_FailedWaitSkipped ==
    /\ [][ (wpc = "reaped" /\ wpc' # "reaped" /\ ret # 0 /\ errno # ENODEV)
             => /\ balls_in_the_air' = balls_in_the_air
                /\ slot' = slot
                /\ cb' = << >>
                /\ aw' = << >>
                /\ wpc' \in {"reap", "loop"}
                /\ retpath' = retpath ]_vars
    /\ []((wpc = "exit" /\ retpath = "drained")
             => (s_cancel_pending /\ balls_in_the_air <= 0))

\* C26 witness: a wait failed with an error other than ENODEV and EINTR, and
\* the worker is back at the loop test with transfers still outstanding.
C26_Witness ==
    /\ wpc = "loop"
    /\ ret # 0
    /\ errno \in OtherErrnos
    /\ urbReaped = NoUrb
    /\ balls_in_the_air > 0
    /\ ~s_cancel_pending

\* C27: the samples of a drained transfer are forwarded to the audio path only
\* together with the notification for that transfer (same sample count), and
\* only if at that moment, under every interleaving with startAudio and
\* stopAudio, s_android_stream points to an opened stream.
C27_ForwardNeedsStream ==
    [][ (aw = << >> /\ aw' # << >>)
          => /\ cb' = aw'
             /\ s_android_stream
             /\ stream_sample_rate # NoRate
             /\ UNCHANGED << s_android_stream, stream_sample_rate >> ]_vars

\* C27 witness: a transfer was notified and forwarded to the stream that
\* startAudio opened during the session.
C27_Witness ==
    /\ wpc = "recycle"
    /\ aw # << >>
    /\ cb = aw
    /\ s_android_stream
    /\ stream_sample_rate = s_audio_out_rate

\* C28: after the compaction the first sum(actual_length) bytes of the slot
\* buffer are, packet after packet, each packet's actual bytes as they stood
\* at that packet's requested-length position before the compaction, for
\* every combination of actual lengths from 0 to the requested length.
C28_CompactedInOrder ==
    (call.fn = "compact" /\ call.phase = "returned")
    => LET before(f) == SumTo([g \in 1 .. PACKETS_PER_URB |->
                                  IF g < f THEN call.frame_desc[g].actual_length ELSE 0],
                              PACKETS_PER_URB)
       IN  \A f \in 1 .. PACKETS_PER_URB :
              \A k \in 1 .. call.frame_desc[f].actual_length :
                 call.compacted[before(f) + k] =
                     call.pData[(f - 1) * call.frame_desc[f].length + k]

\* C28 witness: a short first packet and a full later packet, so that the
\* later packet was moved onto bytes of its own source range.
C28_Witness ==
    /\ call.fn = "compact"
    /\ call.phase = "returned"
    /\ call.frame_desc[1].length = 2
    /\ call.frame_desc[1].actual_length = 1
    /\ call.frame_desc[2].actual_length = 2
    /\ call.frame_desc[3].actual_length = 2
    /\ call.compacted[2] = call.pData[3]
    /\ call.compacted[5] = call.pData[6]

\* C29: the stereo merge of a transfer with m valid interleaved samples reads
\* no sample index >= m and none outside the slot's buffer.
C29_MergeReadsValidData ==
    (call.fn = "merge" /\ call.phase = "returned")
    => \A j \in call.reads : /\ j < call.actual_samples_read
                             /\ j \in DOMAIN call.pData

\* C30: while the capture loop runs, the anti-alias filter state and the
\* oscillator state (phase indices and tone steps) are written by the worker
\* only: every step that changes them is an iteration of write_audio_output.
C30_WorkerOnlyMutator ==
    [][ (/\ wpc \notin {"idle", "returned"}
         /\ << s_downsampling_filter_state, s_reference1_index, s_reference2_index,
               s_heterodyne1_kHz, s_heterodyne2_kHz >>' #
            << s_downsampling_filter_state, s_reference1_index, s_reference2_index,
               s_heterodyne1_kHz, s_heterodyne2_kHz >>)
          => (wa.phase = "run" /\ wa' # wa) ]_vars

C32_CanaryHolds ==
    (call.fn = "slot" /\ call.phase = "returned")
    => /\ call.processed.aborted
            <=> call.pData[MAX_DATA_POINTS_PER_URB] # CANARY_DATA_VALUE
       /\ call.processed.aborted => call.processed.pData = call.pData
       /\ ~call.processed.aborted
            => \A j \in DOMAIN call.pData :
                  j >= MAX_DATA_POINTS_PER_URB
                      => call.processed.pData[j] = call.pData[j]

\* C32 witness: a stereo transfer that filled the slot buffer was compacted
\* and merged, and the canary behind it is intact.
C32_Witness ==
    /\ call.fn = "slot"
    /\ call.phase = "returned"
    /\ call.num_channels = 2
    /\ ~call.paused
    /\ call.actual_length = 2 * MAX_DATA_POINTS_PER_URB
    /\ ~call.processed.aborted
    /\ call.processed.pData # call.pData
    /\ call.processed.pData[MAX_DATA_POINTS_PER_URB] = CANARY_DATA_VALUE

\* C33: a call of startAudio that returns false, whichever step failed,
\* leaves no audio output session: s_android_stream is null when it returns,
\* so the worker forwards nothing until a later startAudio succeeds.
C33_FailedStartLeavesNoStream ==
    [][ \A h1 \in AudioTones, h2 \in AudioTones2 :
          /\ StartAudioRejected(h1, h2) => ~s_android_stream'
          /\ \A b \in AudioBoosts, o \in AudioOutcomes :
                (/\ StartAudio(h1, h2, b, o)
                 /\ ~StartAudioResult(h1, h2, s_nominal_samples_per_frame, o))
                    => ~s_android_stream' ]_vars

\* C34: a cancel request is never lost: a cancel issued before the worker
\* has entered NativeUSB_stream is still pending once the worker has entered
\* and initialised the session, so that the capture loop sees it.
C34_CancelNeverLost ==
    [][ (s_cancel_pending /\ wpc \in {"idle", "returned"} /\ wpc' = "submit")
            => s_cancel_pending' ]_vars

\* C35: cancelStream clears the pause flag; no step of the worker, the entry
\* of NativeUSB_stream included, changes it; and a step that changes the
\* pause flag changes nothing else, but for the cancel flag that cancelStream
\* sets.  So the pause flag is set only by pauseStream, and a session entered
\* after a cancel is paused only if pauseStream was called after that cancel.
C35_PauseFlagFrame ==
    [][ LET others == << mutex, wpc, i_submit, slot, balls_in_the_air, ret, errno,
                         urbReaped, actual_length, bridgeOk, s_fd_file,
                         s_num_channels, s_nominal_samples_per_frame,
                         s_android_stream, cb, aw, status, retpath, copy, call,
                         sessionVars, audioVars, recVars, mapVars >>
        IN  /\ (s_cancel_pending' /\ ~s_cancel_pending) => ~s_paused'
            /\ (wpc' # wpc) => s_paused' = s_paused
            /\ (s_paused' # s_paused)
                  => /\ others' = others
                     /\ \/ s_cancel_pending' = s_cancel_pending
                        \/ s_cancel_pending' /\ ~s_paused' ]_vars

\* C35 witness: a paused capture was cancelled; the cancel is pending and the
\* pause flag is clear while the loop is still running.
C35_Witness ==
    /\ InCaptureLoop
    /\ s_cancel_pending
    /\ ~s_paused
    /\ InFlight # {}

\* C36: doFft returns the number of windows it was given, writes the dB value
\* of bucket j of window w at index transformed_buffer_index + w * buckets + j
\* of the output and nowhere else, and sets the trigger flag exactly when one
\* of the values written for a bucket j with
\* min_trigger_bucket <= j <= max_trigger_bucket is at least the threshold.
C36_TriggerAndLayout ==
    (call.fn = "fft" /\ call.phase = "returned")
    => LET n       == call.fft_window_size
           buckets == n \div 2 + 1
           base    == call.transformed_buffer_index
           window(w) == [k \in 1 .. n |-> call.slices[w * n + k]]
       IN  /\ call.rc = call.num_windows
           /\ DOMAIN call.transformed = base .. (base + call.num_windows * buckets - 1)
           /\ \A w \in 0 .. (call.num_windows - 1), j \in 0 .. (buckets - 1) :
                 call.transformed[base + w * buckets + j]
                     = DbValue(Kiss_fftr(window(w))[j + 1], n, call.minDB)
           /\ call.triggered
                <=> \E w \in 0 .. (call.num_windows - 1) :
                      \E j \in call.min_trigger_bucket .. call.max_trigger_bucket :
                         /\ j < buckets
                         /\ DbAtLeast(call.transformed[base + w * buckets + j],
                                      call.trigger_threshold)

\* C36 witness: two windows written at an offset; the flag is set by a bucket
\* of the second window while the same bucket of the first window is below
\* the threshold.
C36_Witness ==
    /\ call.fn = "fft"
    /\ call.phase = "returned"
    /\ call.num_windows = 2
    /\ call.transformed_buffer_index = 2
    /\ call.min_trigger_bucket = call.max_trigger_bucket
    /\ call.triggered
    /\ LET buckets == call.fft_window_size \div 2 + 1
           j == call.min_trigger_bucket
       IN  /\ ~DbAtLeast(call.transformed[2 + j], call.trigger_threshold)
           /\ DbAtLeast(call.transformed[2 + buckets + j], call.trigger_threshold)

\* C37: with a constant input to the four stage filter, starting from rest,
\* every stage's state lies between 0 and the input at every sample, and the
\* output converges to the input: once a sample leaves the state as it was,
\* the output is the input.
C37_ConstantInputConverges ==
    (call.fn = "filter")
    => /\ \A order \in 1 .. DOWNSAMPLING_AA_STAGES :
             \/ 0 <= call.previous[order] /\ call.previous[order] <= call.mixed
             \/ call.mixed <= call.previous[order] /\ call.previous[order] <= 0
       /\ call.phase = "settled" => call.filtered = call.mixed

====
